---------------------------- MODULE Spec2Model ----------------------------
(***************************************************************************)
(* smtp_to_telegram: formatting, filtering and delivery of one inbound     *)
(* email, modelled from smtp_to_telegram.go.                               *)
(*                                                                         *)
(* A Go string is a sequence of code points.  A code point is a token:     *)
(* "a", " ", "\n", or "U+00E9" for a character whose UTF-8 form takes two  *)
(* bytes.  len(s) of the Go source is ByteLen, len([]rune(s)) is RuneLen.  *)
(***************************************************************************)
EXTENDS Integers, Sequences, FiniteSets, TLC

VARIABLES
    daemon,       \* "boot" | "running" | "failed": outcome of SMTPStart
    filterRules,  \* package variable filterRules: Nil or [items |-> the rules]
    cfg,          \* the TelegramConfig built by main
    pc,           \* position of the save worker in SendEmailToTelegram
    envelope,     \* the inbound mail.Envelope (with what enmime reads from it)
    message,      \* the *FormattedEmail returned by FormatEmail, or Nil
    chatIdx,      \* index of the destination the range loop is at
    attIdx,       \* index of the next attachment to upload to that destination
    sentMessage,  \* the *TelegramAPIMessage of the last text send (Nil: nil pointer)
    requests,     \* history: every HTTP request made for this message, in order
    result,       \* what SendEmailToTelegram returned and the SMTP reply built from it
    logs,         \* history: lines logged while processing this message
    fin,          \* input of the pure function under check (function specifications)
    fout          \* its output

vars == <<daemon, filterRules, cfg, pc, envelope, message, chatIdx, attIdx,
          sentMessage, requests, result, logs, fin, fout>>

Nil == [nil |-> TRUE]

-----------------------------------------------------------------------------
(* Bounds *)

MaxThreshold == 60      \* message-length-to-send-as-file ranges over 0..MaxThreshold
MaxChats == 2           \* telegram-chat-ids lists 1..MaxChats destinations
MaxMsgId == 2           \* message ids the bot API hands out: 1..MaxMsgId
MaxSlack == 1           \* spare capacity of a []rune conversion: 0..MaxSlack
MaxRules == 2           \* a filter configuration lists 0..MaxRules rules

-----------------------------------------------------------------------------
(* Strings *)

\* utf8 encoding width of one code point
Utf8Len(c) ==
    CASE c \in {"U+00E9", "U+00D8"} -> 2
      [] c = "U+2754" -> 3
      [] c \in {"U+1F517", "U+1F4CE"} -> 4
      [] OTHER -> 1

ByteLen(s) ==
    LET Wide(k) == Cardinality({i \in DOMAIN s : Utf8Len(s[i]) = k})
    IN  Wide(1) + 2 * Wide(2) + 3 * Wide(3) + 4 * Wide(4)

RuneLen(s) == Len(s)

\* unicode.IsSpace on the code points the model uses
IsSpace(c) == c \in {" ", "\n", "\t", "\r"}

RECURSIVE TrimLeft(_)
TrimLeft(s) == IF s # <<>> /\ IsSpace(Head(s)) THEN TrimLeft(Tail(s)) ELSE s

RECURSIVE TrimRight(_)
TrimRight(s) ==
    IF s # <<>> /\ IsSpace(s[Len(s)]) THEN TrimRight(SubSeq(s, 1, Len(s) - 1)) ELSE s

TrimSpace(s) == TrimRight(TrimLeft(s))

RECURSIVE Concat(_)
Concat(ss) == IF ss = <<>> THEN <<>> ELSE Head(ss) \o Concat(Tail(ss))

RECURSIVE Join(_, _)
Join(ss, sep) ==
    IF ss = <<>> THEN <<>>
    ELSE IF Len(ss) = 1 THEN ss[1]
    ELSE ss[1] \o sep \o Join(Tail(ss), sep)

HasPrefix(s, p) == Len(s) >= Len(p) /\ SubSeq(s, 1, Len(p)) = p

\* strings.Contains
Contains(s, sub) ==
    \E i \in 0..(Len(s) - Len(sub)) : SubSeq(s, i + 1, i + Len(sub)) = sub

BodyTruncated == <<"\n", "\n", "[", "t", "r", "u", "n", "c", "a", "t", "e", "d", "]">>

-----------------------------------------------------------------------------
(* Message template: a sequence of tokens, each a literal code point, the  *)
(* two-character escape \n, or a placeholder.                              *)

Placeholders == {"{from}", "{to}", "{subject}", "{body}", "{attachments_details}"}

\* one replacement of the strings.NewReplacer argument list
ReplaceToken(tok, from, to, subject, body, details) ==
    CASE tok = "\\n" -> <<"\n">>
      [] tok = "{from}" -> from
      [] tok = "{to}" -> to
      [] tok = "{subject}" -> subject
      [] tok = "{body}" -> body
      [] tok = "{attachments_details}" -> details
      [] OTHER -> <<tok>>

\* Replacer.Replace: one left-to-right pass, replacement values are not rescanned
RECURSIVE Replace(_, _, _, _, _, _)
Replace(tpl, from, to, subject, body, details) ==
    IF tpl = <<>> THEN <<>>
    ELSE ReplaceToken(Head(tpl), from, to, subject, body, details)
         \o Replace(Tail(tpl), from, to, subject, body, details)

\* strings.TrimSpace(strings.NewReplacer(...).Replace(MessageTemplate))
Render(tpl, from, to, subject, body, details) ==
    TrimSpace(Replace(tpl, from, to, subject, TrimSpace(body), details))


-----------------------------------------------------------------------------
(* FormatMessage *)

\* fullMessageText, line 813
FullMessageText(tpl, from, to, subject, text, details) ==
    Render(tpl, from, to, subject, text, details)

EmptyMessageTextMarkerOnly(tpl, from, to, subject, details) ==
    Render(tpl, from, to, subject, BodyTruncated, details)

\* emptyMessageText, line 829: the body is "." followed by the marker
EmptyMessageText(tpl, from, to, subject, details) ==
    Render(tpl, from, to, subject, <<".">> \o BodyTruncated, details)

NoNeedToTruncateStrict(fullLen, threshold) == fullLen < threshold

\* uint(len(fullMessageRunes)) <= MessageLengthToSendAsFile, line 824
NoNeedToTruncate(fullLen, threshold) == fullLen <= threshold

\* uint(len(emptyMessageRunes)) >= MessageLengthToSendAsFile, line 840
ImpossibleToTruncate(emptyLen, threshold) == emptyLen >= threshold

ImproperCutLong(fullRunes, threshold) == SubSeq(fullRunes, 1, threshold + 1)

\* string(fullMessageRunes[:MessageLengthToSendAsFile]), line 842
ImproperCut(fullRunes, threshold) == SubSeq(fullRunes, 1, threshold)

MaxBodyLengthMarkerOnly(threshold, emptyLen) == threshold - emptyLen + 1

\* maxBodyLength, line 845
MaxBodyLength(threshold, emptyLen) == threshold - emptyLen

\* runes[:n] of a slice whose capacity is len(runes)+slack: a slice expression
\* may reach into the capacity, where a fresh conversion holds zero runes
SliceInRange(runes, n, slack) == n <= Len(runes) + slack

SliceUpTo(runes, n) ==
    IF n <= Len(runes) THEN SubSeq(runes, 1, n)
    ELSE runes \o [i \in 1..(n - Len(runes)) |-> "NUL"]

\* truncatedMessageText, line 846
TruncatedMessageText(tpl, from, to, subject, text, details, maxBodyLength) ==
    Render(tpl, from, to, subject,
           SliceUpTo(TrimSpace(text), maxBodyLength) \o BodyTruncated, details)

\* the internal consistency check, line 858
UnexpectedTruncation(truncatedLen, threshold) == truncatedLen > threshold

\* FormatMessage, lines 808-862.  panic is "none", "slice" (slice bounds out of
\* range at line 854) or "unexpected" (line 859).
FormatMessage(from, to, subject, text, details, config, slack) ==
    LET tpl == config.MessageTemplate
        threshold == config.MessageLengthToSendAsFile
        full == FullMessageText(tpl, from, to, subject, text, details)
        empty == EmptyMessageText(tpl, from, to, subject, details)
        maxBodyLength == MaxBodyLength(threshold, RuneLen(empty))
        truncated == TruncatedMessageText(tpl, from, to, subject, text, details,
                                          maxBodyLength)
    IN  IF NoNeedToTruncate(RuneLen(full), threshold)
          THEN [full |-> full, truncated |-> <<>>, panic |-> "none"]
        ELSE IF ImpossibleToTruncate(RuneLen(empty), threshold)
          THEN [full |-> full, truncated |-> ImproperCut(full, threshold),
                panic |-> "none"]
        ELSE IF ~SliceInRange(TrimSpace(text), maxBodyLength, slack)
          THEN [full |-> <<>>, truncated |-> <<>>, panic |-> "slice"]
        ELSE IF UnexpectedTruncation(RuneLen(truncated), threshold)
          THEN [full |-> <<>>, truncated |-> <<>>, panic |-> "unexpected"]
        ELSE [full |-> full, truncated |-> truncated, panic |-> "none"]

-----------------------------------------------------------------------------
(* Attachments *)

AttachmentTypeDocument == 0
AttachmentTypePhoto == 1

S_image_png == <<"i", "m", "a", "g", "e", "/", "p", "n", "g">>
S_image_jpeg == <<"i", "m", "a", "g", "e", "/", "j", "p", "e", "g">>
S_image_gif == <<"i", "m", "a", "g", "e", "/", "g", "i", "f">>
S_text_plain == <<"t", "e", "x", "t", "/", "p", "l", "a", "i", "n">>
S_octet_stream == <<"a", "p", "p", "l", "i", "c", "a", "t", "i", "o", "n", "/",
                    "o", "c", "t", "e", "t", "-", "s", "t", "r", "e", "a", "m">>
S_full_message_txt == <<"f", "u", "l", "l", "_", "m", "e", "s", "s", "a", "g", "e",
                        ".", "t", "x", "t">>
S_Full_message == <<"F", "u", "l", "l", " ", "m", "e", "s", "s", "a", "g", "e">>
S_Attachments == <<"A", "t", "t", "a", "c", "h", "m", "e", "n", "t", "s", ":", "\n">>
S_discarded == <<"d", "i", "s", "c", "a", "r", "d", "e", "d">>
S_sending == <<"s", "e", "n", "d", "i", "n", "g", ".", ".", ".">>

\* filepath.Ext: the suffix beginning at the final dot, "" if there is none
RECURSIVE Ext(_)
Ext(name) ==
    IF name = <<>> THEN <<>>
    ELSE IF Ext(Tail(name)) # <<>> THEN Ext(Tail(name))
    ELSE IF Head(name) = "." THEN name
    ELSE <<>>

\* mime.TypeByExtension on the extensions the model uses
TypeByExtension(ext) ==
    CASE ext = <<".", "p", "n", "g">> -> S_image_png
      [] ext = <<".", "j", "p", "g">> -> S_image_jpeg
      [] ext = <<".", "g", "i", "f">> -> S_image_gif
      [] OTHER -> <<>>

\* GuessContentType, lines 864-873
GuessContentType(contentType, filename) ==
    IF contentType # S_octet_stream THEN contentType
    ELSE IF TypeByExtension(Ext(filename)) # <<>> THEN TypeByExtension(Ext(filename))
    ELSE contentType

FileIsImageWithGif(contentType) ==
    contentType \in {S_image_jpeg, S_image_png, S_image_gif}

\* FileIsImage, lines 875-885
FileIsImage(contentType) == contentType \in {S_image_jpeg, S_image_png}

Digit(d) == <<"0", "1", "2", "3", "4", "5", "6", "7", "8", "9">>[d + 1]

RECURSIVE Decimal(_)
Decimal(n) == IF n < 10 THEN <<Digit(n)>> ELSE Decimal(n \div 10) \o <<Digit(n % 10)>>

\* units.HumanSize for sizes below 1000 bytes: the number followed by "B"
HumanSize(n) == Decimal(n) \o <<"B">>

\* the line written at 721-728 and at 735-740
DetailsLine(emoji, filename, contentType, size, action) ==
    <<"-", " ", emoji, " ">> \o filename \o <<" ", "(">> \o contentType
    \o <<")", " ">> \o HumanSize(size) \o <<",", " ">> \o action

FormattedAttachment(filename, caption, content, fileType) ==
    [Filename |-> filename, Caption |-> caption, Content |-> content,
     FileType |-> fileType]

-----------------------------------------------------------------------------
(* FormatEmail *)

EmojiInline == "U+1F517"
EmojiAttachment == "U+1F4CE"
EmojiOther == "U+2754"

DoPartComparesChosen(emoji, part, envText, config, st) ==
    IF part.Content = st.text THEN st
    ELSE IF st.text = <<>> /\ part.ContentType = S_text_plain /\ part.FileName = <<>>
      THEN [st EXCEPT !.text = part.Content]
    ELSE
      LET contentType == GuessContentType(part.ContentType, part.FileName)
          size == ByteLen(part.Content)
          asPhoto == FileIsImage(contentType)
                     /\ size <= config.ForwardedAttachmentMaxPhotoSize
          asDocument == ~asPhoto /\ size <= config.ForwardedAttachmentMaxSize
          action == IF asPhoto \/ asDocument THEN S_sending ELSE S_discarded
          fileType == IF asPhoto THEN AttachmentTypePhoto ELSE AttachmentTypeDocument
          line == DetailsLine(emoji, part.FileName, contentType, size, action)
      IN  [st EXCEPT
             !.attachments =
                 IF asPhoto \/ asDocument
                   THEN Append(@, FormattedAttachment(part.FileName, part.FileName,
                                                      part.Content, fileType))
                   ELSE @,
             !.details = Append(@, line)]

\* one iteration of the loop of doParts, lines 694-730;
\* st holds the captured text, attachmentsDetails and attachments
DoPart(emoji, part, envText, config, st) ==
    IF part.Content = envText THEN st
    ELSE IF st.text = <<>> /\ part.ContentType = S_text_plain /\ part.FileName = <<>>
      THEN [st EXCEPT !.text = part.Content]
    ELSE
      LET contentType == GuessContentType(part.ContentType, part.FileName)
          size == ByteLen(part.Content)
          asPhoto == FileIsImage(contentType)
                     /\ size <= config.ForwardedAttachmentMaxPhotoSize
          asDocument == ~asPhoto /\ size <= config.ForwardedAttachmentMaxSize
          action == IF asPhoto \/ asDocument THEN S_sending ELSE S_discarded
          fileType == IF asPhoto THEN AttachmentTypePhoto ELSE AttachmentTypeDocument
          line == DetailsLine(emoji, part.FileName, contentType, size, action)
      IN  [st EXCEPT
             !.attachments =
                 IF asPhoto \/ asDocument
                   THEN Append(@, FormattedAttachment(part.FileName, part.FileName,
                                                      part.Content, fileType))
                   ELSE @,
             !.details = Append(@, line)]

\* doParts, lines 693-731
RECURSIVE DoParts(_, _, _, _, _)
DoParts(emoji, parts, envText, config, st) ==
    IF parts = <<>> THEN st
    ELSE DoParts(emoji, Tail(parts), envText, config,
                 DoPart(emoji, Head(parts), envText, config, st))

\* the loop over env.OtherParts, lines 734-742
OtherLines(parts) ==
    [i \in 1..Len(parts) |->
        DetailsLine(EmojiOther, parts[i].FileName,
                    GuessContentType(parts[i].ContentType, parts[i].FileName),
                    ByteLen(parts[i].Content), S_discarded)]

CatalogueAttachmentsFirst(env, config) ==
    LET st0 == [text |-> env.Text, details |-> <<>>, attachments |-> <<>>]
        st1 == DoParts(EmojiAttachment, env.Attachments, env.Text, config, st0)
        st2 == DoParts(EmojiInline, env.Inlines, env.Text, config, st1)
    IN  [st2 EXCEPT !.details = @ \o OtherLines(env.OtherParts)]

\* state of text, attachmentsDetails and attachments at line 746
Catalogue(env, config) ==
    LET st0 == [text |-> env.Text, details |-> <<>>, attachments |-> <<>>]
        st1 == DoParts(EmojiInline, env.Inlines, env.Text, config, st0)
        st2 == DoParts(EmojiAttachment, env.Attachments, env.Text, config, st1)
    IN  [st2 EXCEPT !.details = @ \o OtherLines(env.OtherParts)]

BodyTextNoRawFallback(env, config) == Catalogue(env, config).text

\* text after the fallback of lines 747-749
BodyText(env, config) ==
    IF Catalogue(env, config).text = <<>> THEN env.Data
    ELSE Catalogue(env, config).text

\* formattedAttachmentsDetails, lines 751-757
FormattedAttachmentsDetails(details) ==
    IF Len(details) > 0 THEN S_Attachments \o Join(details, <<"\n">>) ELSE <<>>

\* JoinEmailAddresses, lines 887-893
JoinEmailAddresses(a) == Join(a, <<",", " ">>)

FullMessageAttachment(fullMessageText) ==
    FormattedAttachment(S_full_message_txt, S_Full_message, fullMessageText,
                        AttachmentTypeDocument)

\* truncatedMessageText == "", line 772
NoTruncatedText(truncatedMessageText) == truncatedMessageText = <<>>

\* len(fullMessageText) > ForwardedAttachmentMaxSize, line 783
MessageTooLarge(fullMessageText, config) ==
    ByteLen(fullMessageText) > config.ForwardedAttachmentMaxSize

FormattedEmail(from, to, subject, text, html, attachments) ==
    [From |-> from, To |-> to, Subject |-> subject, Text |-> text, HTML |-> html,
     Attachments |-> attachments]

\* FormatEmail, lines 682-806: the returned message, the returned error, or a panic
FormatEmail(env, config, slack) ==
    IF ~env.parseOk
      THEN [msg |-> Nil, err |-> [kind |-> "errEmailParsing"], panic |-> "none"]
    ELSE
      LET cat == Catalogue(env, config)
          from == env.MailFrom
          to == JoinEmailAddresses(env.RcptTo)
          subject == env.Subject
          html == env.HTML
          fm == FormatMessage(from, to, subject, BodyText(env, config),
                              FormattedAttachmentsDetails(cat.details), config, slack)
      IN  IF fm.panic # "none"
            THEN [msg |-> Nil, err |-> Nil, panic |-> fm.panic]
          ELSE IF NoTruncatedText(fm.truncated)
            THEN [msg |-> FormattedEmail(from, to, subject, fm.full, html,
                                         cat.attachments),
                  err |-> Nil, panic |-> "none"]
          ELSE IF MessageTooLarge(fm.full, config)
            THEN [msg |-> Nil,
                  err |-> [kind |-> "errMessageTooLarge", length |-> ByteLen(fm.full),
                           max |-> config.ForwardedAttachmentMaxSize],
                  panic |-> "none"]
          ELSE [msg |-> FormattedEmail(from, to, subject, fm.truncated, html,
                            <<FullMessageAttachment(fm.full)>> \o cat.attachments),
                err |-> Nil, panic |-> "none"]

-----------------------------------------------------------------------------
(* Filter rule engine *)

\* simple case folding on the letters the model uses
Lower(c) ==
    CASE c = "S" -> "s" [] c = "P" -> "p" [] c = "A" -> "a" [] c = "M" -> "m"
      [] c = "H" -> "h" [] c = "I" -> "i" [] OTHER -> c

RegexFlags == {"(?i)", "(?-i)"}

\* regexp.Compile fails on a pattern that holds an unclosed group
CompileFails(pattern) == \E i \in 1..Len(pattern) : pattern[i] = "("

\* regexp.Compile on patterns made of flag groups and literals: each literal
\* is compiled with the case sensitivity set by the flag groups before it
RECURSIVE CompileFrom(_, _)
CompileFrom(pattern, fold) ==
    IF pattern = <<>> THEN <<>>
    ELSE IF Head(pattern) = "(?i)" THEN CompileFrom(Tail(pattern), TRUE)
    ELSE IF Head(pattern) = "(?-i)" THEN CompileFrom(Tail(pattern), FALSE)
    ELSE <<[c |-> Head(pattern), fold |-> fold]>> \o CompileFrom(Tail(pattern), fold)

Compile(pattern) == CompileFrom(pattern, FALSE)

\* the compiled pattern matches s at offset i
MatchAt(regex, s, i) ==
    /\ i + Len(regex) <= Len(s)
    /\ \A k \in 1..Len(regex) :
          IF regex[k].fold THEN Lower(regex[k].c) = Lower(s[i + k])
          ELSE regex[k].c = s[i + k]

\* Regexp.MatchString: an unanchored search
MatchString(regex, s) == \E i \in 0..Len(s) : MatchAt(regex, s, i)

CaseSensitivePattern(pattern) == pattern

\* the pattern handed to regexp.Compile, lines 335-338
CaseInsensitivePattern(pattern) ==
    IF ~HasPrefix(pattern, <<"(?i)">>) THEN <<"(?i)">> \o pattern ELSE pattern

\* isValidFilterField, lines 355-362
isValidFilterField(field) ==
    field \in {"from", "to", "subject", "body", "html", "body_or_html"}

\* the loop over rule.Conditions, lines 329-344: the error that ends it (Nil if
\* none) and the conditions with their compiled patterns
RECURSIVE LoadConditions(_, _)
LoadConditions(rule, conds) ==
    IF conds = <<>> THEN [err |-> Nil, conds |-> <<>>]
    ELSE
      LET cond == Head(conds)
          pattern == CaseInsensitivePattern(cond.Pattern)
          rest == LoadConditions(rule, Tail(conds))
      IN  IF ~isValidFilterField(cond.Field)
            THEN [err |-> [kind |-> "errInvalidField", rule |-> rule.Name],
                  conds |-> <<>>]
          ELSE IF CompileFails(pattern)
            THEN [err |-> [kind |-> "invalid regex pattern", rule |-> rule.Name],
                  conds |-> <<>>]
          ELSE IF rest.err # Nil THEN rest
          ELSE [err |-> Nil,
                conds |-> <<[Field |-> cond.Field, Pattern |-> cond.Pattern,
                             regex |-> Compile(pattern)]>> \o rest.conds]

\* rule.Match after lines 323-325
DefaultMatch(match) == IF match = "" THEN "all" ELSE match

\* the loop over config.FilterRules, lines 320-345
RECURSIVE LoadRules(_)
LoadRules(rules) ==
    IF rules = <<>> THEN [err |-> Nil, rules |-> <<>>]
    ELSE
      LET rule == Head(rules)
          match == DefaultMatch(rule.Match)
          conds == LoadConditions(rule, rule.Conditions)
          rest == LoadRules(Tail(rules))
      IN  IF match # "all" /\ match # "any"
            THEN [err |-> [kind |-> "errInvalidMatchType", rule |-> rule.Name],
                  rules |-> <<>>]
          ELSE IF conds.err # Nil THEN [err |-> conds.err, rules |-> <<>>]
          ELSE IF rest.err # Nil THEN rest
          ELSE [err |-> Nil,
                rules |-> <<[Name |-> rule.Name, Match |-> match,
                             Conditions |-> conds.conds]>> \o rest.rules]

\* loadFilterRules, lines 302-353: the returned error and the value the package
\* variable filterRules holds when it returns.  file is what filename names:
\* kind "none" (empty filename), "unreadable", "badyaml" or "config".
loadFilterRules(file) ==
    CASE file.kind = "none" -> [err |-> Nil, filterRules |-> Nil]
      [] file.kind = "unreadable" ->
            [err |-> [kind |-> "failed to read config file"], filterRules |-> Nil]
      [] file.kind = "badyaml" ->
            [err |-> [kind |-> "failed to parse config YAML"], filterRules |-> Nil]
      [] OTHER ->
            IF LoadRules(file.FilterRules).err # Nil
              THEN [err |-> LoadRules(file.FilterRules).err, filterRules |-> Nil]
              ELSE [err |-> Nil,
                    filterRules |-> [items |-> LoadRules(file.FilterRules).rules]]

evaluateConditionJoined(cond, from, to, subject, body, html) ==
    CASE cond.Field = "from" -> MatchString(cond.regex, from)
      [] cond.Field = "to" -> MatchString(cond.regex, to)
      [] cond.Field = "subject" -> MatchString(cond.regex, subject)
      [] cond.Field = "body" -> MatchString(cond.regex, body)
      [] cond.Field = "html" -> MatchString(cond.regex, html)
      [] cond.Field = "body_or_html" -> MatchString(cond.regex, body \o html)
      [] OTHER -> FALSE

\* evaluateCondition, lines 402-422
evaluateCondition(cond, from, to, subject, body, html) ==
    CASE cond.Field = "from" -> MatchString(cond.regex, from)
      [] cond.Field = "to" -> MatchString(cond.regex, to)
      [] cond.Field = "subject" -> MatchString(cond.regex, subject)
      [] cond.Field = "body" -> MatchString(cond.regex, body)
      [] cond.Field = "html" -> MatchString(cond.regex, html)
      [] cond.Field = "body_or_html" ->
            MatchString(cond.regex, body) \/ MatchString(cond.regex, html)
      [] OTHER -> FALSE

\* the "any" loop, lines 385-390
RECURSIVE AnyLoop(_, _, _, _, _, _)
AnyLoop(conds, from, to, subject, body, html) ==
    IF conds = <<>> THEN FALSE
    ELSE IF evaluateCondition(Head(conds), from, to, subject, body, html) THEN TRUE
    ELSE AnyLoop(Tail(conds), from, to, subject, body, html)

\* the "all" loop, lines 394-399
RECURSIVE AllLoop(_, _, _, _, _, _)
AllLoop(conds, from, to, subject, body, html) ==
    IF conds = <<>> THEN TRUE
    ELSE IF ~evaluateCondition(Head(conds), from, to, subject, body, html) THEN FALSE
    ELSE AllLoop(Tail(conds), from, to, subject, body, html)

evaluateRuleNoEmptyCheck(rule, from, to, subject, body, html) ==
    IF rule.Match = "any"
      THEN AnyLoop(rule.Conditions, from, to, subject, body, html)
    ELSE AllLoop(rule.Conditions, from, to, subject, body, html)

\* evaluateRule, lines 378-400
evaluateRule(rule, from, to, subject, body, html) ==
    IF Len(rule.Conditions) = 0 THEN FALSE
    ELSE IF rule.Match = "any"
      THEN AnyLoop(rule.Conditions, from, to, subject, body, html)
    ELSE AllLoop(rule.Conditions, from, to, subject, body, html)

RECURSIVE RulesLoopLast(_, _, _, _, _, _)
RulesLoopLast(rules, from, to, subject, body, html) ==
    IF rules = <<>> THEN [rejected |-> FALSE, ruleName |-> ""]
    ELSE IF RulesLoopLast(Tail(rules), from, to, subject, body, html).rejected
      THEN RulesLoopLast(Tail(rules), from, to, subject, body, html)
    ELSE IF evaluateRule(Head(rules), from, to, subject, body, html)
      THEN [rejected |-> TRUE, ruleName |-> Head(rules).Name]
    ELSE [rejected |-> FALSE, ruleName |-> ""]

\* the loop over filterRules, lines 369-375
RECURSIVE RulesLoop(_, _, _, _, _, _)
RulesLoop(rules, from, to, subject, body, html) ==
    IF rules = <<>> THEN [rejected |-> FALSE, ruleName |-> ""]
    ELSE IF evaluateRule(Head(rules), from, to, subject, body, html)
      THEN [rejected |-> TRUE, ruleName |-> Head(rules).Name]
    ELSE RulesLoop(Tail(rules), from, to, subject, body, html)

\* checkFilterRules, lines 364-376, reading the package variable's value rules
checkFilterRules(rules, from, to, subject, body, html) ==
    IF rules = Nil THEN [rejected |-> FALSE, ruleName |-> ""]
    ELSE RulesLoop(rules.items, from, to, subject, body, html)

-----------------------------------------------------------------------------
(* Delivery *)

\* strings.SplitSeq(s, ","): the pieces between the separators, at least one
RECURSIVE SplitFrom(_, _, _)
SplitFrom(s, sep, piece) ==
    IF s = <<>> THEN <<piece>>
    ELSE IF Head(s) = sep THEN <<piece>> \o SplitFrom(Tail(s), sep, <<>>)
    ELSE SplitFrom(Tail(s), sep, Append(piece, Head(s)))

Split(s, sep) == SplitFrom(s, sep, <<>>)

\* what the bot API answers to one request: no answer at all (connection error
\* or timeout), or a status with a body
TextResponses ==
    {[kind |-> "connErr"],
     [kind |-> "http", status |-> 400, readable |-> TRUE, json |-> FALSE,
      ok |-> FALSE, result |-> Nil],
     [kind |-> "http", status |-> 200, readable |-> FALSE, json |-> FALSE,
      ok |-> FALSE, result |-> Nil],
     [kind |-> "http", status |-> 200, readable |-> TRUE, json |-> FALSE,
      ok |-> FALSE, result |-> Nil],
     [kind |-> "http", status |-> 200, readable |-> TRUE, json |-> TRUE,
      ok |-> FALSE, result |-> Nil],
     [kind |-> "http", status |-> 200, readable |-> TRUE, json |-> TRUE,
      ok |-> TRUE, result |-> Nil]}
    \cup {[kind |-> "http", status |-> 200, readable |-> TRUE, json |-> TRUE,
           ok |-> TRUE, result |-> [MessageID |-> id]] : id \in 1..MaxMsgId}

AttachmentResponses ==
    {[kind |-> "connErr"], [kind |-> "http", status |-> 400],
     [kind |-> "http", status |-> 200]}

\* SendMessageToChat, lines 524-582: the returned message and error
SendMessageToChat(resp) ==
    IF resp.kind = "connErr" THEN [msg |-> Nil, err |-> [kind |-> "client.Do"]]
    ELSE IF resp.status # 200
      THEN [msg |-> Nil, err |-> [kind |-> "errTelegramNon200"]]
    ELSE IF ~resp.readable THEN [msg |-> Nil, err |-> [kind |-> "errReadingJSON"]]
    ELSE IF ~resp.json THEN [msg |-> Nil, err |-> [kind |-> "errParsingJSON"]]
    ELSE IF ~resp.ok THEN [msg |-> Nil, err |-> [kind |-> "errResponseNotOK"]]
    ELSE [msg |-> resp.result, err |-> Nil]

\* the method chosen by buildAttachmentForm, lines 592-603
AttachmentMethod(attachment) ==
    CASE attachment.FileType = AttachmentTypeDocument -> "sendDocument"
      [] attachment.FileType = AttachmentTypePhoto -> "sendPhoto"
      [] OTHER -> "errUnknownFileType"

\* SendAttachmentToChat, lines 627-680: the returned error
SendAttachmentToChat(attachment, resp) ==
    IF AttachmentMethod(attachment) = "errUnknownFileType"
      THEN [kind |-> "errUnknownFileType"]
    ELSE IF resp.kind = "connErr" THEN [kind |-> "client.Do"]
    ELSE IF resp.status # 200 THEN [kind |-> "errTelegramNon200"]
    ELSE Nil

\* the error SendEmailToTelegram builds at lines 507 and 513
SanitizedTelegramFail(err) == [kind |-> "errSanitizedTelegramFail", cause |-> err.kind]

ProcessorResultIgnoresError(err) == [err |-> err, smtp |-> "next processor"]

\* what TelegramBotProcessorFactory answers for the value SendEmailToTelegram
\* returned, lines 471-475
ProcessorResult(err) ==
    IF err # Nil THEN [err |-> err, smtp |-> "554 Error"]
    ELSE [err |-> Nil, smtp |-> "next processor"]

Chats(config) == Split(config.ChatIDs, ",")

TextSendAbortsIfStrict(err, config) ==
    err # Nil /\ config.ForwardedAttachmentRespectErrors

\* err != nil at line 505: a failed text send ends SendEmailToTelegram
TextSendAborts(err, config) == err # Nil

AttachmentSendAbortsAlways(err, config) == err # Nil

\* lines 512-516: a failed upload ends SendEmailToTelegram under the strict policy
AttachmentSendAborts(err, config) ==
    err # Nil /\ config.ForwardedAttachmentRespectErrors

-----------------------------------------------------------------------------
(* Inputs *)

S_from == <<"a", "@", "b">>
S_rcpt == <<"c", "@", "d">>
S_hi == <<"h", "i">>
S_SPAM == <<"S", "P", "A", "M">>
S_spam == <<"s", "p", "a", "m">>
S_ham == <<"h", "a", "m">>
S_html == <<"<", "p", ">", "H", "a", "m">>
S_raw == <<"r", "a", "w">>

\* a body of n code points, every fifth one two bytes wide, with inner spaces
LongBody(n) ==
    [i \in 1..n |-> IF i % 5 = 0 THEN "U+00E9" ELSE IF i % 7 = 0 THEN " " ELSE "x"]

\* the default of the message-template flag, line 242
TplDefault ==
    <<"F", "r", "o", "m", ":", " ", "{from}", "\\n", "T", "o", ":", " ", "{to}", "\\n",
      "S", "u", "b", "j", "e", "c", "t", ":", " ", "{subject}", "\\n", "\\n",
      "{body}", "\\n", "\\n", "{attachments_details}">>

TplCustom ==
    <<"S", "u", "b", "j", "e", "c", "t", ":", " ", "{subject}", "\\n", "\\n", "{body}">>

TplDetails == <<"{body}", "\\n", "{attachments_details}">>

TplBodyTwice == <<"{body}", "{body}">>

TplNoBody == <<"{subject}", "!">>

PartPng ==
    [FileName |-> <<"a", ".", "p", "n", "g">>, ContentType |-> S_image_png,
     Content |-> <<"P", "N", "G">>]

PartDoc ==
    [FileName |-> <<"n", ".", "t", "x", "t">>, ContentType |-> S_text_plain,
     Content |-> <<"d", "o", "c", "U+00E9">>]

Envelope(subject, text, html, inlines, attachments, others, parseOk) ==
    [MailFrom |-> S_from, RcptTo |-> <<S_rcpt>>, Subject |-> subject, Text |-> text,
     HTML |-> html, Inlines |-> inlines, Attachments |-> attachments,
     OtherParts |-> others, Data |-> S_raw, parseOk |-> parseOk]

\* an attached file of zero bytes
PartEmpty ==
    [FileName |-> <<"e", ".", "t", "x", "t">>, ContentType |-> S_text_plain,
     Content |-> <<>>]

MainEnvelopes ==
    {Envelope(S_hi, S_hi, <<>>, <<>>, <<>>, <<>>, TRUE),
     Envelope(S_hi, S_hi, <<>>, <<>>, <<PartEmpty>>, <<>>, TRUE),
     Envelope(S_SPAM, S_hi, S_html, <<>>, <<>>, <<>>, TRUE),
     Envelope(S_hi, LongBody(30), <<>>, <<>>, <<>>, <<>>, TRUE),
     Envelope(S_hi, S_hi, <<>>, <<>>, <<PartPng, PartDoc>>, <<>>, TRUE),
     Envelope(S_hi, S_hi, <<>>, <<>>, <<>>, <<>>, FALSE)}

RuleSpam ==
    [Name |-> "block-spam", Match |-> "",
     Conditions |-> <<[Field |-> "subject", Pattern |-> S_spam]>>]

RuleHam ==
    [Name |-> "block-ham", Match |-> "any",
     Conditions |-> <<[Field |-> "body_or_html", Pattern |-> S_ham],
                      [Field |-> "from", Pattern |-> <<"z", "@">>]>>]

RuleBadMode ==
    [Name |-> "bad-mode", Match |-> "some",
     Conditions |-> <<[Field |-> "subject", Pattern |-> S_spam]>>]

\* a body rule whose pattern occurs only at the end of LongBody(30)
RuleBodyTail ==
    [Name |-> "block-body-tail", Match |-> "",
     Conditions |-> <<[Field |-> "body", Pattern |-> <<" ", "x", "U+00E9">>]>>]

RuleBodyHi ==
    [Name |-> "block-body-hi", Match |-> "all",
     Conditions |-> <<[Field |-> "body", Pattern |-> S_hi]>>]

MainConfigFiles ==
    {[kind |-> "none"], [kind |-> "unreadable"],
     [kind |-> "config", FilterRules |-> <<RuleSpam, RuleHam>>],
     [kind |-> "config", FilterRules |-> <<RuleSpam, RuleBadMode>>],
     [kind |-> "config", FilterRules |-> <<RuleBodyTail>>],
     [kind |-> "config", FilterRules |-> <<RuleBodyHi>>]}

ChatId(i) == Decimal(41 + i)

\* the telegram-chat-ids flag naming k destinations
ChatIDsFlag(k) == Join([i \in 1..k |-> ChatId(i)], <<",">>)

TelegramConfig(chatIDs, tpl, maxSize, maxPhotoSize, respectErrors, threshold) ==
    [ChatIDs |-> chatIDs, MessageTemplate |-> tpl,
     ForwardedAttachmentMaxSize |-> maxSize,
     ForwardedAttachmentMaxPhotoSize |-> maxPhotoSize,
     ForwardedAttachmentRespectErrors |-> respectErrors,
     MessageLengthToSendAsFile |-> threshold]

MainConfigs ==
    {TelegramConfig(ChatIDsFlag(k), TplCustom, size, size, respect, threshold) :
        k \in 1..MaxChats, size \in {0, 64}, respect \in BOOLEAN,
        threshold \in {0, 32}}

RuleAll2 ==
    [Name |-> "all-2", Match |-> "all",
     Conditions |-> <<[Field |-> "subject", Pattern |-> S_spam],
                      [Field |-> "body", Pattern |-> S_hi]>>]

RuleDefault2 ==
    [Name |-> "default-2", Match |-> "",
     Conditions |-> <<[Field |-> "html", Pattern |-> S_ham],
                      [Field |-> "to", Pattern |-> <<"c", "@">>]>>]

RuleAny2 ==
    [Name |-> "any-2", Match |-> "any",
     Conditions |-> <<[Field |-> "subject", Pattern |-> S_hi],
                      [Field |-> "html", Pattern |-> S_ham]>>]

RuleEmptyAll == [Name |-> "empty-all", Match |-> "all", Conditions |-> <<>>]

RuleEmptyAny == [Name |-> "empty-any", Match |-> "any", Conditions |-> <<>>]

RuleBadField ==
    [Name |-> "bad-field", Match |-> "all",
     Conditions |-> <<[Field |-> "cc", Pattern |-> S_spam]>>]

RuleBadRegex ==
    [Name |-> "bad-regex", Match |-> "any",
     Conditions |-> <<[Field |-> "body", Pattern |-> <<"(", "h", "i">>]>>]

\* the author wrote the case-insensitive flag
RuleFlagOn ==
    [Name |-> "flag-on", Match |-> "any",
     Conditions |-> <<[Field |-> "subject", Pattern |-> <<"(?i)">> \o S_spam]>>]

\* the author switched case-insensitivity off
RuleFlagOff ==
    [Name |-> "flag-off", Match |-> "all",
     Conditions |-> <<[Field |-> "body", Pattern |-> <<"(?-i)">> \o S_spam]>>]

RuleEitherHam ==
    [Name |-> "either-ham", Match |-> "",
     Conditions |-> <<[Field |-> "body_or_html", Pattern |-> S_ham]>>]

RuleEitherHi ==
    [Name |-> "either-hi", Match |-> "any",
     Conditions |-> <<[Field |-> "body_or_html", Pattern |-> S_hi]>>]

\* a pattern found only across the end of the body and the start of the html
RuleEitherSpan ==
    [Name |-> "either-span", Match |-> "all",
     Conditions |-> <<[Field |-> "body_or_html", Pattern |-> <<"i", "<">>]>>]

RulePool ==
    {RuleSpam, RuleHam, RuleAll2, RuleDefault2, RuleAny2, RuleEmptyAll, RuleEmptyAny,
     RuleBadMode, RuleBadField, RuleBadRegex, RuleFlagOn, RuleFlagOff,
     RuleEitherHam, RuleEitherHi, RuleEitherSpan}

\* every rule list of at most MaxRules rules of the pool
RuleLists == UNION {[1..n -> RulePool] : n \in 0..MaxRules}

FilterFiles ==
    {[kind |-> "none"], [kind |-> "unreadable"], [kind |-> "badyaml"]}
    \cup {[kind |-> "config", FilterRules |-> rules] : rules \in RuleLists}

FilterInputs ==
    [fn : {"checkFilterRules"}, file : FilterFiles, from : {S_from}, to : {S_rcpt},
     subject : {<<>>, S_SPAM, S_hi}, body : {S_hi, S_spam \o <<" ">> \o S_hi},
     html : {<<>>, S_html}]

Templates == {TplDefault, TplCustom, TplDetails, TplBodyTwice, TplNoBody}

PartTextPlain ==
    [FileName |-> <<>>, ContentType |-> S_text_plain,
     Content |-> <<"b", "o", "d", "y">>]

PartSameAsText ==
    [FileName |-> <<"n", ".", "t", "x", "t">>, ContentType |-> S_text_plain,
     Content |-> S_hi]

PartOctetPng ==
    [FileName |-> <<"b", ".", "p", "n", "g">>, ContentType |-> S_octet_stream,
     Content |-> <<"P", "N", "G">>]

PartGif ==
    [FileName |-> <<"c", ".", "g", "i", "f">>, ContentType |-> S_image_gif,
     Content |-> <<"G", "I", "F", "8", "9">>]

PartOther ==
    [FileName |-> <<"o">>, ContentType |-> S_octet_stream, Content |-> <<"?">>]

FormatEnvelopes ==
    {Envelope(<<>>, S_hi, <<>>, <<>>, <<>>, <<>>, TRUE),
     Envelope(S_SPAM, S_hi, S_html, <<>>, <<>>, <<>>, TRUE),
     Envelope(S_hi, LongBody(30), <<>>, <<>>, <<>>, <<>>, TRUE),
     Envelope(S_hi, S_hi, <<>>, <<>>, <<PartPng, PartDoc>>, <<>>, TRUE),
     Envelope(S_hi, <<>>, <<>>, <<PartTextPlain>>, <<PartPng>>, <<>>, TRUE),
     Envelope(S_hi, S_hi, <<>>, <<PartSameAsText>>, <<PartGif>>, <<PartOther>>, TRUE),
     Envelope(S_hi, <<>>, <<>>, <<>>, <<>>, <<>>, TRUE),
     Envelope(<<>>, LongBody(12), <<>>, <<PartOctetPng>>, <<PartDoc>>, <<>>, TRUE),
     Envelope(S_hi, S_hi, <<>>, <<>>, <<>>, <<>>, FALSE)}

FormatEmailInputs ==
    {[fn |-> "FormatEmail", env |-> env,
      config |-> TelegramConfig(ChatIDsFlag(1), tpl, size, photo, FALSE, threshold)] :
        env \in FormatEnvelopes, tpl \in Templates, size \in {0, 4, 64},
        photo \in {0, 3, 64}, threshold \in 0..MaxThreshold}

S_details == S_Attachments \o <<"-", " ", "x">>

FormatMessageInputs ==
    {[fn |-> "FormatMessage", from |-> S_from, to |-> S_rcpt, subject |-> subject,
      text |-> text, details |-> details,
      config |-> TelegramConfig(ChatIDsFlag(1), tpl, 64, 64, FALSE, threshold)] :
        subject \in {<<>>, S_SPAM},
        text \in {<<>>, <<" ">>, S_hi, <<" ", "h", "i", "\n">>, LongBody(12),
                  LongBody(30)},
        details \in {<<>>, S_details}, tpl \in Templates,
        threshold \in 0..MaxThreshold}

-----------------------------------------------------------------------------
(* The SMTP daemon and one save worker *)

Init ==
    /\ daemon = "boot"
    /\ filterRules = Nil
    /\ cfg \in MainConfigs
    /\ pc = "Idle"
    /\ envelope = Nil
    /\ message = Nil
    /\ chatIdx = 0
    /\ attIdx = 0
    /\ sentMessage = Nil
    /\ requests = <<>>
    /\ result = Nil
    /\ logs = <<>>
    /\ fin = Nil
    /\ fout = Nil

\* the error SMTPStart returns, lines 453-458; started tells whether
\* daemon.Start() succeeded
SMTPStartError(load, started) ==
    IF load.err # Nil THEN [kind |-> "failed to load config", cause |-> load.err]
    ELSE IF started THEN Nil
    ELSE [kind |-> "daemon.Start"]

SMTPStartIgnoresLoadError ==
    /\ daemon = "boot"
    /\ \E file \in MainConfigFiles, started \in BOOLEAN :
          LET load == loadFilterRules(file)
          IN  /\ filterRules' = load.filterRules
              /\ daemon' = IF started THEN "running" ELSE "failed"
              /\ fin' = [fn |-> "SMTPStart", ConfigFile |-> file]
              /\ fout' = [err |-> SMTPStartError(load, started)]
    /\ UNCHANGED <<cfg, pc, envelope, message, chatIdx, attIdx, sentMessage,
                   requests, result, logs>>

\* SMTPStart, lines 424-459: load the rules, then start the daemon; fin and
\* fout record smtpConfig.ConfigFile and the returned error
SMTPStart ==
    /\ daemon = "boot"
    /\ \E file \in MainConfigFiles, started \in BOOLEAN :
          LET load == loadFilterRules(file)
          IN  /\ filterRules' = load.filterRules
              /\ daemon' = IF load.err # Nil THEN "failed"
                           ELSE IF started THEN "running" ELSE "failed"
              /\ fin' = [fn |-> "SMTPStart", ConfigFile |-> file]
              /\ fout' = [err |-> SMTPStartError(load, started)]
    /\ UNCHANGED <<cfg, pc, envelope, message, chatIdx, attIdx, sentMessage,
                   requests, result, logs>>

\* the backend hands an envelope to the TelegramBot processor with TaskSaveMail
Receive ==
    /\ daemon = "running"
    /\ pc \in {"Idle", "Accepted", "Rejected", "Panicked"}
    /\ \E env \in MainEnvelopes : envelope' = env
    /\ pc' = "Formatting"
    /\ message' = Nil
    /\ chatIdx' = 0
    /\ attIdx' = 0
    /\ sentMessage' = Nil
    /\ requests' = <<>>
    /\ result' = Nil
    /\ logs' = <<>>
    /\ UNCHANGED <<daemon, filterRules, cfg, fin, fout>>

\* SendEmailToTelegram, lines 488-491
DoFormat ==
    /\ pc = "Formatting"
    /\ \E slack \in 0..MaxSlack :
          LET r == FormatEmail(envelope, cfg, slack)
          IN  IF r.panic # "none"
                THEN /\ pc' = "Panicked"
                     /\ UNCHANGED <<message, result>>
              ELSE IF r.err # Nil
                THEN /\ pc' = "Rejected"
                     /\ result' = ProcessorResult(r.err)
                     /\ UNCHANGED message
              ELSE /\ pc' = "Filtering"
                   /\ message' = r.msg
                   /\ UNCHANGED result
    /\ UNCHANGED <<daemon, filterRules, cfg, envelope, chatIdx, attIdx, sentMessage,
                   requests, logs, fin, fout>>

DoFilterLogOnly ==
    /\ pc = "Filtering"
    /\ LET check == checkFilterRules(filterRules, message.From, message.To,
                                     message.Subject, message.Text, message.HTML)
       IN  logs' = IF check.rejected
                     THEN Append(logs, [level |-> "info", msg |-> "Rejecting email",
                                        ruleName |-> check.ruleName])
                     ELSE logs
    /\ pc' = "Delivering"
    /\ chatIdx' = 1
    /\ UNCHANGED <<daemon, filterRules, cfg, envelope, message, attIdx, sentMessage,
                   requests, result, fin, fout>>

\* SendEmailToTelegram, lines 493-502
DoFilter ==
    /\ pc = "Filtering"
    /\ LET check == checkFilterRules(filterRules, message.From, message.To,
                                     message.Subject, message.Text, message.HTML)
       IN  IF check.rejected
             THEN /\ pc' = "Rejected"
                  /\ logs' = Append(logs, [level |-> "info", msg |-> "Rejecting email",
                                           ruleName |-> check.ruleName])
                  /\ result' = ProcessorResult([kind |-> "errRejectedByFilter",
                                                ruleName |-> check.ruleName])
                  /\ UNCHANGED chatIdx
           ELSE /\ pc' = "Delivering"
                /\ chatIdx' = 1
                /\ UNCHANGED <<logs, result>>
    /\ UNCHANGED <<daemon, filterRules, cfg, envelope, message, attIdx, sentMessage,
                   requests, fin, fout>>

AfterStepChatsFirst(chat, att) ==
    IF chat < Len(Chats(cfg))
      THEN [pc |-> "Delivering", chatIdx |-> chat + 1, attIdx |-> att]
    ELSE IF att < Len(message.Attachments)
      THEN [pc |-> "Delivering", chatIdx |-> 1, attIdx |-> att + 1]
    ELSE [pc |-> "Accepted", chatIdx |-> chat, attIdx |-> att]

\* where the loops of lines 503-521 go after the upload of attachment att to
\* destination chat (att = 0: after the text send)
AfterStep(chat, att) ==
    IF att < Len(message.Attachments)
      THEN [pc |-> "Delivering", chatIdx |-> chat, attIdx |-> att + 1]
    ELSE IF chat < Len(Chats(cfg))
      THEN [pc |-> "Delivering", chatIdx |-> chat + 1, attIdx |-> 0]
    ELSE [pc |-> "Accepted", chatIdx |-> chat, attIdx |-> att]

SendTextKeepsFirstMessage ==
    /\ pc = "Delivering"
    /\ attIdx = 0
    /\ \E resp \in TextResponses :
          LET sent == SendMessageToChat(resp)
              next == AfterStep(chatIdx, 0)
          IN  /\ requests' = Append(requests,
                     [method |-> "sendMessage", chat |-> Chats(cfg)[chatIdx],
                      att |-> 0, reply |-> Nil, failed |-> sent.err # Nil,
                      returned |-> sent.msg])
              /\ IF TextSendAborts(sent.err, cfg)
                   THEN /\ pc' = "Rejected"
                        /\ result' = ProcessorResult(SanitizedTelegramFail(sent.err))
                        /\ UNCHANGED <<chatIdx, attIdx, sentMessage>>
                 ELSE /\ sentMessage' = IF chatIdx = 1 THEN sent.msg ELSE sentMessage
                      /\ pc' = next.pc
                      /\ chatIdx' = next.chatIdx
                      /\ attIdx' = next.attIdx
                      /\ result' = IF next.pc = "Accepted" THEN ProcessorResult(Nil)
                                   ELSE result
    /\ UNCHANGED <<daemon, filterRules, cfg, envelope, message, logs, fin, fout>>

\* SendEmailToTelegram, lines 504-508: the text send to the current destination
SendText ==
    /\ pc = "Delivering"
    /\ attIdx = 0
    /\ \E resp \in TextResponses :
          LET sent == SendMessageToChat(resp)
              next == AfterStep(chatIdx, 0)
          IN  /\ requests' = Append(requests,
                     [method |-> "sendMessage", chat |-> Chats(cfg)[chatIdx],
                      att |-> 0, reply |-> Nil, failed |-> sent.err # Nil,
                      returned |-> sent.msg])
              /\ IF TextSendAborts(sent.err, cfg)
                   THEN /\ pc' = "Rejected"
                        /\ result' = ProcessorResult(SanitizedTelegramFail(sent.err))
                        /\ UNCHANGED <<chatIdx, attIdx, sentMessage>>
                 ELSE /\ sentMessage' = sent.msg
                      /\ pc' = next.pc
                      /\ chatIdx' = next.chatIdx
                      /\ attIdx' = next.attIdx
                      /\ result' = IF next.pc = "Accepted" THEN ProcessorResult(Nil)
                                   ELSE result
    /\ UNCHANGED <<daemon, filterRules, cfg, envelope, message, logs, fin, fout>>

\* SendEmailToTelegram, lines 510-519: the upload of the current attachment
SendAttachment ==
    /\ pc = "Delivering"
    /\ attIdx > 0
    /\ sentMessage # Nil
    /\ \E resp \in AttachmentResponses :
          LET attachment == message.Attachments[attIdx]
              err == SendAttachmentToChat(attachment, resp)
              next == AfterStep(chatIdx, attIdx)
          IN  /\ requests' = Append(requests,
                     [method |-> AttachmentMethod(attachment),
                      chat |-> Chats(cfg)[chatIdx], att |-> attIdx,
                      reply |-> sentMessage.MessageID, failed |-> err # Nil,
                      returned |-> Nil])
              /\ IF AttachmentSendAborts(err, cfg)
                   THEN /\ pc' = "Rejected"
                        /\ result' = ProcessorResult(SanitizedTelegramFail(err))
                        /\ UNCHANGED <<chatIdx, attIdx, logs>>
                 ELSE /\ logs' = IF err # Nil
                                   THEN Append(logs,
                                          [level |-> "error",
                                           msg |-> "Ignoring attachment sending error",
                                           err |-> SanitizedTelegramFail(err)])
                                   ELSE logs
                      /\ pc' = next.pc
                      /\ chatIdx' = next.chatIdx
                      /\ attIdx' = next.attIdx
                      /\ result' = IF next.pc = "Accepted" THEN ProcessorResult(Nil)
                                   ELSE result
    /\ UNCHANGED <<daemon, filterRules, cfg, envelope, message, sentMessage,
                   fin, fout>>

\* buildAttachmentForm, line 608: sentMessage is a nil pointer when the bot API
\* answered ok without a result; reading its MessageID panics before any request
AttachmentPanic ==
    /\ pc = "Delivering"
    /\ attIdx > 0
    /\ sentMessage = Nil
    /\ pc' = "Panicked"
    /\ UNCHANGED <<daemon, filterRules, cfg, envelope, message, chatIdx, attIdx,
                   sentMessage, requests, result, logs, fin, fout>>

Next ==
    \/ SMTPStart
    \/ Receive
    \/ DoFormat
    \/ DoFilter
    \/ SendText
    \/ SendAttachment
    \/ AttachmentPanic

Spec == Init /\ [][Next]_vars

-----------------------------------------------------------------------------
(* Terms of the claims *)

\* a rule matches: every condition in mode "all", some condition in mode "any",
\* and never without conditions
RuleMatches(rule, from, to, subject, body, html) ==
    /\ rule.Conditions # <<>>
    /\ IF rule.Match = "any"
         THEN \E i \in DOMAIN rule.Conditions :
                 evaluateCondition(rule.Conditions[i], from, to, subject, body, html)
         ELSE \A i \in DOMAIN rule.Conditions :
                 evaluateCondition(rule.Conditions[i], from, to, subject, body, html)

\* indexes of the loaded rules that match the formatted message m
MatchingRules(rules, m) ==
    IF rules = Nil THEN {}
    ELSE {i \in DOMAIN rules.items :
            RuleMatches(rules.items[i], m.From, m.To, m.Subject, m.Text, m.HTML)}

\* method, destination and attachment index of each request made so far
Made == [i \in DOMAIN requests |->
            <<requests[i].method, requests[i].chat, requests[i].att>>]

\* the requests of a complete delivery of m: per destination in list order, the
\* text and then every attachment in attachment-list order
RequestsFor(chat, m) ==
    <<<<"sendMessage", chat, 0>>>>
    \o [j \in DOMAIN m.Attachments |->
          <<AttachmentMethod(m.Attachments[j]), chat, j>>]

CompleteDelivery(m, config) ==
    Concat([c \in DOMAIN Chats(config) |-> RequestsFor(Chats(config)[c], m)])

IsPrefix(s, t) == Len(s) <= Len(t) /\ SubSeq(t, 1, Len(s)) = s

TextSends == {i \in DOMAIN requests : requests[i].method = "sendMessage"}
Uploads == {i \in DOMAIN requests : requests[i].method # "sendMessage"}

\* every HTTP call made so far succeeded (a text send with a message returned)
AllCallsSucceeded ==
    \A i \in DOMAIN requests :
       /\ ~requests[i].failed
       /\ requests[i].method = "sendMessage" => requests[i].returned # Nil

-----------------------------------------------------------------------------
(* C1: a message whose formatted fields match a loaded rule is rejected    *)
(* with a 554 error carrying the name of a matching rule and no request is *)
(* made for it; a message that matches no rule goes on to delivery.        *)

C1_FilterMatchRejects ==
    /\ [][pc = "Filtering" =>
            IF MatchingRules(filterRules, message) # {}
              THEN /\ pc' = "Rejected"
                   /\ result'.smtp = "554 Error"
                   /\ result'.err.kind = "errRejectedByFilter"
                   /\ \E i \in MatchingRules(filterRules, message) :
                         result'.err.ruleName = filterRules.items[i].Name
                   /\ requests' = <<>>
              ELSE /\ pc' = "Delivering"
                   /\ chatIdx' = 1 /\ attIdx' = 0]_vars
    /\ [](pc = "Rejected" /\ result.err.kind = "errRejectedByFilter"
            => requests = <<>>)

C1_Witness ==
    /\ pc = "Rejected"
    /\ result.smtp = "554 Error"
    /\ result.err = [kind |-> "errRejectedByFilter", ruleName |-> "block-spam"]
    /\ Len(Chats(cfg)) = 2

-----------------------------------------------------------------------------
(* C4: with no rule matching and every call succeeding, the requests made  *)
(* are at every moment a prefix of the complete delivery (destinations in  *)
(* list order, text then attachments in order, each once), and the message *)
(* is Accepted exactly when that delivery is complete: n text sends and    *)
(* n*k uploads.                                                            *)

-----------------------------------------------------------------------------
(* C5: a failed text send is the last request made for the message and the *)
(* message is Rejected with a 554 error, under either policy.              *)

C5_TextFailureRejects ==
    \A i \in TextSends :
       requests[i].failed =>
          /\ i = Len(requests)
          /\ pc = "Rejected"
          /\ result.smtp = "554 Error"
          /\ result.err.kind = "errSanitizedTelegramFail"

C5_Witness ==
    /\ ~cfg.ForwardedAttachmentRespectErrors
    /\ pc = "Rejected"
    /\ message # Nil
    /\ Len(message.Attachments) = 2
    /\ Len(requests) = 4
    /\ requests[4].method = "sendMessage"
    /\ requests[4].failed
    /\ requests[4].chat = Chats(cfg)[2]

-----------------------------------------------------------------------------
(* C6 as stated: a failed upload under the strict policy is the last       *)
(* request and the message is Rejected; under the lenient policy a message *)
(* with a failed upload always ends Accepted, with every request of the    *)
(* complete delivery attempted.                                            *)

FailedUploads == {i \in Uploads : requests[i].failed}

ErrorLogs == {l \in DOMAIN logs : logs[l].level = "error"}

C6_LenientAlwaysAccepted ==
    \A i \in FailedUploads :
       IF cfg.ForwardedAttachmentRespectErrors
         THEN i = Len(requests) /\ pc = "Rejected"
         ELSE pc \in {"Accepted", "Rejected"} =>
                 /\ pc = "Accepted"
                 /\ Made = CompleteDelivery(message, cfg)

(* C6 as amended: under the strict policy a failed upload is the last      *)
(* request and the message is Rejected with a 554 error; under the lenient *)
(* policy the failure is logged and never itself rejects the message: the  *)
(* loop goes on to the next attachment of that destination or to the text  *)
(* send of the next destination, the message is Accepted only once the     *)
(* complete delivery has been attempted, and it is Rejected only by a      *)
(* later failed text send.                                                 *)

C6_UploadFailurePolicy ==
    \A i \in FailedUploads :
       IF cfg.ForwardedAttachmentRespectErrors
         THEN /\ i = Len(requests)
              /\ pc = "Rejected"
              /\ result.smtp = "554 Error"
              /\ result.err.kind = "errSanitizedTelegramFail"
              /\ ErrorLogs = {}
         ELSE /\ Cardinality(ErrorLogs) = Cardinality(FailedUploads)
              /\ IsPrefix(Made, CompleteDelivery(message, cfg))
              /\ i = Len(requests) => pc \in {"Delivering", "Accepted"}
              /\ (i = Len(requests) /\ pc = "Delivering") =>
                    /\ CompleteDelivery(message, cfg)[i + 1][2] = Chats(cfg)[chatIdx]
                    /\ CompleteDelivery(message, cfg)[i + 1][3] = attIdx
              /\ pc = "Accepted" => Made = CompleteDelivery(message, cfg)
              /\ pc = "Rejected" =>
                    /\ requests[Len(requests)].method = "sendMessage"
                    /\ requests[Len(requests)].failed

C6_Witness ==
    /\ ~cfg.ForwardedAttachmentRespectErrors
    /\ pc = "Accepted"
    /\ Len(requests) = 6
    /\ FailedUploads = {2}

-----------------------------------------------------------------------------
(* C10: a message whose full rendering exceeds both the threshold (in code *)
(* points) and forwarded-attachment-max-size (in bytes) is Rejected with   *)
(* the message-too-large error, with no FormattedEmail, no filter          *)
(* evaluation and no request.                                              *)

\* the full rendering of an envelope: the template applied and trimmed
FullRendering(env, config) ==
    FullMessageText(config.MessageTemplate, env.MailFrom,
                    JoinEmailAddresses(env.RcptTo), env.Subject,
                    BodyText(env, config),
                    FormattedAttachmentsDetails(Catalogue(env, config).details))

ExceedsBoth(env, config) ==
    /\ RuneLen(FullRendering(env, config)) > config.MessageLengthToSendAsFile
    /\ ByteLen(FullRendering(env, config)) > config.ForwardedAttachmentMaxSize

C10_TooLargeRejected ==
    (pc \notin {"Idle", "Formatting"} /\ envelope.parseOk
       /\ ExceedsBoth(envelope, cfg)) =>
        /\ pc = "Rejected"
        /\ message = Nil
        /\ result.smtp = "554 Error"
        /\ result.err.kind = "errMessageTooLarge"
        /\ requests = <<>>
        /\ logs = <<>>

-----------------------------------------------------------------------------
(* The filter rule engine on its own: a configuration file is loaded and   *)
(* one set of field values is evaluated against the loaded rules.          *)

InitFilter ==
    /\ daemon = "boot"
    /\ filterRules = Nil
    /\ cfg = Nil
    /\ pc = "Idle"
    /\ envelope = Nil
    /\ message = Nil
    /\ chatIdx = 0
    /\ attIdx = 0
    /\ sentMessage = Nil
    /\ requests = <<>>
    /\ result = Nil
    /\ logs = <<>>
    /\ fin \in FilterInputs
    /\ fout = Nil

\* loadFilterRules(filename), lines 302-353
ApplyLoad ==
    /\ fin # Nil /\ fin.fn = "checkFilterRules"
    /\ fout = Nil
    /\ filterRules' = loadFilterRules(fin.file).filterRules
    /\ fout' = [step |-> "loaded", err |-> loadFilterRules(fin.file).err]
    /\ UNCHANGED <<daemon, cfg, pc, envelope, message, chatIdx, attIdx, sentMessage,
                   requests, result, logs, fin>>

\* checkFilterRules(from, to, subject, body, html), lines 364-376, and
\* evaluateRule on each loaded rule, lines 378-400
ApplyCheck ==
    /\ fout # Nil /\ fout.step = "loaded"
    /\ fout' = [step |-> "checked", err |-> fout.err,
                check |-> checkFilterRules(filterRules, fin.from, fin.to,
                                           fin.subject, fin.body, fin.html),
                evals |-> IF filterRules = Nil THEN <<>>
                          ELSE [i \in DOMAIN filterRules.items |->
                                  evaluateRule(filterRules.items[i], fin.from, fin.to,
                                               fin.subject, fin.body, fin.html)]]
    /\ UNCHANGED <<daemon, filterRules, cfg, pc, envelope, message, chatIdx, attIdx,
                   sentMessage, requests, result, logs, fin>>

\* the configuration files of a later call of loadFilterRules
ReloadFiles ==
    {[kind |-> "none"], [kind |-> "unreadable"], [kind |-> "badyaml"],
     [kind |-> "config", FilterRules |-> <<RuleSpam>>],
     [kind |-> "config", FilterRules |-> <<RuleBadMode>>],
     [kind |-> "config", FilterRules |-> <<RuleSpam, RuleBadField>>],
     [kind |-> "config", FilterRules |-> <<RuleSpam, RuleBadRegex>>]}

ApplyReloadKeepsOnFailure ==
    /\ fout # Nil /\ fout.step = "checked"
    /\ \E file \in ReloadFiles :
          /\ fin' = [fin EXCEPT !.file = file]
          /\ filterRules' = IF loadFilterRules(file).err # Nil THEN filterRules
                            ELSE loadFilterRules(file).filterRules
          /\ fout' = [step |-> "loaded", err |-> loadFilterRules(file).err,
                      previous |-> filterRules]
    /\ UNCHANGED <<daemon, cfg, pc, envelope, message, chatIdx, attIdx, sentMessage,
                   requests, result, logs>>

\* a later call loadFilterRules(filename), lines 302-353, made while the
\* package variable holds the outcome of the earlier call; previous records
\* what the variable held when the call was made
ApplyReload ==
    /\ fout # Nil /\ fout.step = "checked"
    /\ \E file \in ReloadFiles :
          /\ fin' = [fin EXCEPT !.file = file]
          /\ filterRules' = loadFilterRules(file).filterRules
          /\ fout' = [step |-> "loaded", err |-> loadFilterRules(file).err,
                      previous |-> filterRules]
    /\ UNCHANGED <<daemon, cfg, pc, envelope, message, chatIdx, attIdx, sentMessage,
                   requests, result, logs>>

NextFilter ==
    \/ ApplyLoad
    \/ ApplyCheck
    \/ ApplyReload

SpecFilter == InitFilter /\ [][NextFilter]_vars

\* the loaded rules that match the field values of the input
MatchingInput ==
    IF filterRules = Nil THEN {}
    ELSE {i \in DOMAIN filterRules.items :
            RuleMatches(filterRules.items[i], fin.from, fin.to, fin.subject, fin.body,
                        fin.html)}

Min(S) == CHOOSE x \in S : \A y \in S : x <= y

-----------------------------------------------------------------------------
(* C2: checkFilterRules returns (true, name of the earliest matching rule  *)
(* in load order) when some loaded rule matches, and (false, "") when none *)
(* matches or the rule set is nil or empty.                                *)

C2_FirstMatchWins ==
    (fout # Nil /\ fout.step = "checked") =>
        IF MatchingInput # {}
          THEN fout.check = [rejected |-> TRUE,
                             ruleName |-> filterRules.items[Min(MatchingInput)].Name]
          ELSE fout.check = [rejected |-> FALSE, ruleName |-> ""]

C2_Witness ==
    /\ fout # Nil /\ fout.step = "checked"
    /\ MatchingInput = {1, 2}
    /\ filterRules.items[1].Name # filterRules.items[2].Name
    /\ fout.check = [rejected |-> TRUE, ruleName |-> filterRules.items[1].Name]

-----------------------------------------------------------------------------
(* C3: a loaded rule written with mode "all" or with no mode matches iff   *)
(* it has conditions and every one matches; a rule with mode "any" matches *)
(* iff at least one condition matches; no mode other than these is loaded. *)

ConditionHolds(cond) ==
    evaluateCondition(cond, fin.from, fin.to, fin.subject, fin.body, fin.html)

C3_MatchModes ==
    (fout # Nil /\ fout.step = "checked" /\ filterRules # Nil) =>
        \A i \in DOMAIN filterRules.items :
           LET written == fin.file.FilterRules[i].Match
               conds == filterRules.items[i].Conditions
           IN  /\ written \in {"", "all", "any"}
               /\ Len(conds) = Len(fin.file.FilterRules[i].Conditions)
               /\ written \in {"", "all"} =>
                     fout.evals[i] = (/\ conds # <<>>
                                      /\ \A j \in DOMAIN conds : ConditionHolds(conds[j]))
               /\ written = "any" =>
                     fout.evals[i] = (\E j \in DOMAIN conds : ConditionHolds(conds[j]))
               /\ conds = <<>> => ~fout.evals[i]

C3_Witness ==
    /\ fout # Nil /\ fout.step = "checked" /\ filterRules # Nil
    /\ Len(filterRules.items) = 2
    /\ fin.file.FilterRules[1].Match = ""
    /\ Len(filterRules.items[1].Conditions) = 2
    /\ ConditionHolds(filterRules.items[1].Conditions[2])
    /\ ~ConditionHolds(filterRules.items[1].Conditions[1])
    /\ ~fout.evals[1]
    /\ fin.file.FilterRules[2].Match = "any"
    /\ Len(filterRules.items[2].Conditions) = 2
    /\ ConditionHolds(filterRules.items[2].Conditions[1])
    /\ ~ConditionHolds(filterRules.items[2].Conditions[2])
    /\ fout.evals[2]

-----------------------------------------------------------------------------
(* The formatter on its own: FormatMessage and FormatEmail applied to one  *)
(* input.                                                                  *)

PartJpg ==
    [FileName |-> <<"d", ".", "j", "p", "g">>, ContentType |-> S_image_jpeg,
     Content |-> <<"J", "F", "I", "F">>]

\* an unnamed text/plain part of zero bytes
PartEmptyPlain == [FileName |-> <<>>, ContentType |-> S_text_plain, Content |-> <<>>]

DoPartsEnvelopes ==
    {env \in FormatEnvelopes : env.parseOk}
    \cup {Envelope(S_hi, S_hi, <<>>, <<PartPng>>, <<PartJpg, PartDoc>>, <<PartOther>>,
                   TRUE),
          Envelope(S_hi, <<>>, <<>>, <<PartGif, PartTextPlain>>,
                   <<PartTextPlain, PartOctetPng>>, <<>>, TRUE),
          Envelope(S_hi, <<>>, <<>>, <<PartEmptyPlain, PartGif>>,
                   <<PartTextPlain, PartEmpty, PartDoc>>, <<>>, TRUE),
          Envelope(S_hi, <<>>, <<>>, <<PartPng>>, <<PartDoc>>, <<PartOther>>, TRUE)}

DoPartsInputs ==
    {[fn |-> "doParts", env |-> env,
      config |-> TelegramConfig(ChatIDsFlag(1), TplDefault, size, photo, FALSE, 0)] :
        env \in DoPartsEnvelopes, size \in {0, 4, 64}, photo \in {0, 3, 64}}

InitFormat ==
    /\ daemon = "boot"
    /\ filterRules = Nil
    /\ cfg = Nil
    /\ pc = "Idle"
    /\ envelope = Nil
    /\ message = Nil
    /\ chatIdx = 0
    /\ attIdx = 0
    /\ sentMessage = Nil
    /\ requests = <<>>
    /\ result = Nil
    /\ logs = <<>>
    /\ fin \in FormatMessageInputs \cup FormatEmailInputs \cup DoPartsInputs
    /\ fout = Nil

\* FormatMessage(from, to, subject, text, formattedAttachmentsDetails,
\* telegramConfig), lines 808-862
ApplyFormatMessage ==
    /\ fin # Nil /\ fin.fn = "FormatMessage"
    /\ fout = Nil
    /\ \E slack \in 0..MaxSlack :
          fout' = FormatMessage(fin.from, fin.to, fin.subject, fin.text, fin.details,
                                fin.config, slack)
    /\ UNCHANGED <<daemon, filterRules, cfg, pc, envelope, message, chatIdx, attIdx,
                   sentMessage, requests, result, logs, fin>>

\* FormatEmail(envelope, telegramConfig), lines 682-806
ApplyFormatEmail ==
    /\ fin # Nil /\ fin.fn = "FormatEmail"
    /\ fout = Nil
    /\ \E slack \in 0..MaxSlack : fout' = FormatEmail(fin.env, fin.config, slack)
    /\ UNCHANGED <<daemon, filterRules, cfg, pc, envelope, message, chatIdx, attIdx,
                   sentMessage, requests, result, logs, fin>>

\* FormatEmail, lines 688-757: the two doParts passes, the loop over
\* env.OtherParts and formattedAttachmentsDetails
ApplyDoParts ==
    /\ fin # Nil /\ fin.fn = "doParts"
    /\ fout = Nil
    /\ LET cat == Catalogue(fin.env, fin.config)
       IN  fout' = [text |-> cat.text, details |-> cat.details,
                    attachments |-> cat.attachments,
                    formatted |-> FormattedAttachmentsDetails(cat.details)]
    /\ UNCHANGED <<daemon, filterRules, cfg, pc, envelope, message, chatIdx, attIdx,
                   sentMessage, requests, result, logs, fin>>

NextFormat ==
    \/ ApplyFormatMessage
    \/ ApplyFormatEmail
    \/ ApplyDoParts

SpecFormat == InitFormat /\ [][NextFormat]_vars

FormatEmailDone == fin # Nil /\ fin.fn = "FormatEmail" /\ fout # Nil

FormatMessageDone == fin # Nil /\ fin.fn = "FormatMessage" /\ fout # Nil

-----------------------------------------------------------------------------
(* C7: for an email whose full rendering has more code points than the     *)
(* threshold and no more bytes than forwarded-attachment-max-size,         *)
(* FormatEmail returns a message whose attachments are full_message.txt    *)
(* holding the full rendering followed by the part-derived attachments,    *)
(* and whose Text has at most threshold code points.                       *)

C7_FullMessageAttached ==
    (FormatEmailDone /\ fin.env.parseOk
       /\ RuneLen(FullRendering(fin.env, fin.config))
             > fin.config.MessageLengthToSendAsFile
       /\ ByteLen(FullRendering(fin.env, fin.config))
             <= fin.config.ForwardedAttachmentMaxSize) =>
        /\ fout.panic = "none"
        /\ fout.err = Nil
        /\ fout.msg.Attachments =
              <<FormattedAttachment(S_full_message_txt, S_Full_message,
                                    FullRendering(fin.env, fin.config),
                                    AttachmentTypeDocument)>>
              \o Catalogue(fin.env, fin.config).attachments
        /\ RuneLen(fout.msg.Text) <= fin.config.MessageLengthToSendAsFile

-----------------------------------------------------------------------------
(* C8: whenever FormatMessage produces a truncated rendering, it has at    *)
(* most threshold code points.                                             *)

C8_TruncatedWithinThreshold ==
    (FormatMessageDone /\ fout.panic = "none"
       /\ RuneLen(fout.full) > fin.config.MessageLengthToSendAsFile) =>
        RuneLen(fout.truncated) <= fin.config.MessageLengthToSendAsFile

C8_Witness ==
    /\ FormatMessageDone /\ fout.panic = "none"
    /\ RuneLen(fout.full) > fin.config.MessageLengthToSendAsFile
    /\ RuneLen(fout.truncated) = fin.config.MessageLengthToSendAsFile - 1
    /\ ByteLen(fout.truncated) > fin.config.MessageLengthToSendAsFile
    /\ SubSeq(fout.truncated, RuneLen(fout.truncated) - 12, RuneLen(fout.truncated))
          = BodyTruncated

-----------------------------------------------------------------------------
(* C9: if the full rendering has at most threshold code points, FormatEmail *)
(* returns it unchanged as Text, with the part-derived attachments only.   *)

C9_NoTruncationRoundTrip ==
    (FormatEmailDone /\ fin.env.parseOk
       /\ RuneLen(FullRendering(fin.env, fin.config))
             <= fin.config.MessageLengthToSendAsFile) =>
        /\ fout.panic = "none"
        /\ fout.err = Nil
        /\ fout.msg.Text = FullRendering(fin.env, fin.config)
        /\ fout.msg.Attachments = Catalogue(fin.env, fin.config).attachments

\* From: a@b / To: c@d / Subject: / (empty line) / hi
S_example ==
    <<"F", "r", "o", "m", ":", " ", "a", "@", "b", "\n", "T", "o", ":", " ", "c", "@",
      "d", "\n", "S", "u", "b", "j", "e", "c", "t", ":", " ", "\n", "\n", "h", "i">>

C9_Witness ==
    /\ FormatEmailDone
    /\ fin.config.MessageTemplate = TplDefault
    /\ fin.config.MessageLengthToSendAsFile = 31
    /\ fout.msg # Nil
    /\ fout.msg.Text = S_example
    /\ fout.msg.Attachments = <<>>

-----------------------------------------------------------------------------
(* C11: every inline or attachment part that is not consumed as the body   *)
(* is listed, in order, and classified: a JPEG or PNG (by effective        *)
(* content type) no larger than the max photo size is a photo; otherwise a *)
(* part no larger than the max document size is a document; otherwise it   *)
(* is discarded.  Photos and documents are appended to the attachment list *)
(* and listed with "sending..."; a discarded part is listed with           *)
(* "discarded" and is not in the attachment list.  The attachments of the  *)
(* message FormatEmail returns end with that attachment list.              *)

AllParts(env) == env.Inlines \o env.Attachments

PartEmoji(env, i) == IF i <= Len(env.Inlines) THEN EmojiInline ELSE EmojiAttachment

UnnamedPlain(part) == part.ContentType = S_text_plain /\ part.FileName = <<>>

\* the part is the body: its bytes equal the plain text, or the email has no
\* plain text and it is the first unnamed text/plain part with content
ConsumedAsBody(env, i) ==
    \/ AllParts(env)[i].Content = env.Text
    \/ /\ env.Text = <<>>
       /\ UnnamedPlain(AllParts(env)[i])
       /\ \A j \in 1..(i - 1) :
             ~(UnnamedPlain(AllParts(env)[j]) /\ AllParts(env)[j].Content # <<>>)

PartClass(part, config) ==
    LET effective == GuessContentType(part.ContentType, part.FileName)
        size == ByteLen(part.Content)
    IN  IF effective \in {S_image_jpeg, S_image_png}
           /\ size <= config.ForwardedAttachmentMaxPhotoSize THEN "photo"
        ELSE IF size <= config.ForwardedAttachmentMaxSize THEN "document"
        ELSE "discarded"

\* indexes of the parts that are not consumed as the body, in order
RECURSIVE ListedUpTo(_, _)
ListedUpTo(env, n) ==
    IF n = 0 THEN <<>>
    ELSE ListedUpTo(env, n - 1) \o (IF ConsumedAsBody(env, n) THEN <<>> ELSE <<n>>)

ListedParts(env) == ListedUpTo(env, Len(AllParts(env)))

\* those of the indexes in listed whose part is a photo or a document
RECURSIVE ForwardedOf(_, _, _)
ForwardedOf(env, config, listed) ==
    IF listed = <<>> THEN <<>>
    ELSE (IF PartClass(AllParts(env)[Head(listed)], config) # "discarded"
            THEN <<Head(listed)>> ELSE <<>>)
         \o ForwardedOf(env, config, Tail(listed))

ForwardedParts(env, config) == ForwardedOf(env, config, ListedParts(env))

ExpectedLines(env, config) ==
    [k \in 1..Len(ListedParts(env)) |->
        LET i == ListedParts(env)[k]
            part == AllParts(env)[i]
        IN  DetailsLine(PartEmoji(env, i), part.FileName,
                        GuessContentType(part.ContentType, part.FileName),
                        ByteLen(part.Content),
                        IF PartClass(part, config) = "discarded" THEN S_discarded
                        ELSE S_sending)]

ExpectedAttachments(env, config) ==
    [k \in 1..Len(ForwardedParts(env, config)) |->
        LET part == AllParts(env)[ForwardedParts(env, config)[k]]
        IN  [Filename |-> part.FileName, Caption |-> part.FileName,
             Content |-> part.Content,
             FileType |-> IF PartClass(part, config) = "photo"
                            THEN AttachmentTypePhoto ELSE AttachmentTypeDocument]]

IsSuffix(s, t) == Len(s) <= Len(t) /\ SubSeq(t, Len(t) - Len(s) + 1, Len(t)) = s

C11_PartClassification ==
    /\ (fin # Nil /\ fin.fn = "doParts" /\ fout # Nil) =>
          /\ fout.attachments = ExpectedAttachments(fin.env, fin.config)
          /\ fout.details = ExpectedLines(fin.env, fin.config)
                            \o OtherLines(fin.env.OtherParts)
    /\ (FormatEmailDone /\ fout.msg # Nil) =>
          /\ IsSuffix(ExpectedAttachments(fin.env, fin.config), fout.msg.Attachments)
          /\ Len(fout.msg.Attachments)
                <= Len(ExpectedAttachments(fin.env, fin.config)) + 1

C11_Witness ==
    /\ fin # Nil /\ fin.fn = "doParts" /\ fout # Nil
    /\ fin.config.ForwardedAttachmentMaxPhotoSize = 3
    /\ fin.config.ForwardedAttachmentMaxSize = 4
    /\ fout.attachments =
          <<FormattedAttachment(PartPng.FileName, PartPng.FileName, PartPng.Content,
                                AttachmentTypePhoto),
            FormattedAttachment(PartJpg.FileName, PartJpg.FileName, PartJpg.Content,
                                AttachmentTypeDocument)>>
    /\ Len(fout.details) = 4
    /\ fout.details[2] = DetailsLine(EmojiAttachment, PartJpg.FileName, S_image_jpeg,
                                     4, S_sending)
    /\ fout.details[3] = DetailsLine(EmojiAttachment, PartDoc.FileName, S_text_plain,
                                     5, S_discarded)

-----------------------------------------------------------------------------
(* C12: with a single rule holding a single condition on field "body", a   *)
(* formatted email is rejected by the filter exactly when its plain text   *)
(* body matches the pattern, whatever the template and the threshold.      *)

SingleBodyRule ==
    /\ filterRules # Nil
    /\ Len(filterRules.items) = 1
    /\ Len(filterRules.items[1].Conditions) = 1
    /\ filterRules.items[1].Conditions[1].Field = "body"

FilterRejected == pc = "Rejected" /\ result.err.kind = "errRejectedByFilter"

C12_BodyRuleOnPlainText ==
    (pc \in {"Delivering", "Accepted", "Rejected"} /\ message # Nil
       /\ SingleBodyRule) =>
        (FilterRejected
           <=> MatchString(filterRules.items[1].Conditions[1].regex,
                           BodyText(envelope, cfg)))

-----------------------------------------------------------------------------
(* C13 as stated: for every loaded condition, whatever its pattern holds   *)
(* (flags included), a field value matches the pattern iff every           *)
(* re-casing of the value matches it.                                      *)

Upper(c) ==
    CASE c = "s" -> "S" [] c = "p" -> "P" [] c = "a" -> "A" [] c = "m" -> "M"
      [] c = "h" -> "H" [] c = "i" -> "I" [] OTHER -> c

\* re-casings of a value: all lower, all upper, alternating
Recasings(v) ==
    {[k \in DOMAIN v |-> Lower(v[k])], [k \in DOMAIN v |-> Upper(v[k])],
     [k \in DOMAIN v |-> IF k % 2 = 1 THEN Upper(v[k]) ELSE Lower(v[k])]}

FieldValues == {fin.from, fin.to, fin.subject, fin.body, fin.html}

LoadedConditions ==
    IF filterRules = Nil THEN {}
    ELSE UNION {{filterRules.items[i].Conditions[j] :
                    j \in DOMAIN filterRules.items[i].Conditions} :
                 i \in DOMAIN filterRules.items}

CaseBlind(cond) ==
    \A v \in FieldValues : \A w \in Recasings(v) :
       MatchString(cond.regex, v) = MatchString(cond.regex, w)

SwitchesOff(pattern) == \E k \in DOMAIN pattern : pattern[k] = "(?-i)"

-----------------------------------------------------------------------------
(* C14: a loaded rule whose single condition is on field "body_or_html"    *)
(* with a pattern of literals matches iff the pattern occurs, letter case  *)
(* aside, in the body value or in the html value; an occurrence that only  *)
(* the concatenation of the two holds is no match.                         *)

LowerAll(v) == [k \in DOMAIN v |-> Lower(v[k])]

Occurs(pattern, v) == Contains(LowerAll(v), LowerAll(pattern))

IsLiteral(pattern) == \A k \in DOMAIN pattern : pattern[k] \notin RegexFlags

C14_BodyOrHtmlSeparately ==
    (fout # Nil /\ fout.step = "checked" /\ filterRules # Nil) =>
        \A i \in DOMAIN filterRules.items :
           LET conds == filterRules.items[i].Conditions
           IN  (/\ Len(conds) = 1
                /\ conds[1].Field = "body_or_html"
                /\ IsLiteral(conds[1].Pattern)) =>
                   fout.evals[i] = (\/ Occurs(conds[1].Pattern, fin.body)
                                    \/ Occurs(conds[1].Pattern, fin.html))

C14_Witness ==
    /\ fout # Nil /\ fout.step = "checked"
    /\ fin.file = [kind |-> "config", FilterRules |-> <<RuleEitherSpan, RuleEitherHam>>]
    /\ Occurs(RuleEitherSpan.Conditions[1].Pattern, fin.body \o fin.html)
    /\ ~Occurs(S_ham, fin.body)
    /\ fout.evals = <<FALSE, TRUE>>
    /\ fout.check = [rejected |-> TRUE, ruleName |-> "either-ham"]

-----------------------------------------------------------------------------
(* C15: loadFilterRules returns an error exactly when the file is          *)
(* unreadable or unparsable, a rule's match mode is neither "all" nor      *)
(* "any" (nor omitted), a condition's field is not one of the six fields,  *)
(* or a pattern does not compile; after a failed load the rule set is nil, *)
(* also when the earlier load had activated rules, and checkFilterRules    *)
(* then rejects nothing.                                                   *)

BadRule(rule) ==
    \/ rule.Match \notin {"", "all", "any"}
    \/ \E j \in DOMAIN rule.Conditions :
          \/ rule.Conditions[j].Field
                \notin {"from", "to", "subject", "body", "html", "body_or_html"}
          \/ \E k \in DOMAIN rule.Conditions[j].Pattern :
                rule.Conditions[j].Pattern[k] = "("

LoadMustFail(file) ==
    \/ file.kind \in {"unreadable", "badyaml"}
    \/ /\ file.kind = "config"
       /\ \E i \in DOMAIN file.FilterRules : BadRule(file.FilterRules[i])

C15_FailedLoadClearsRules ==
    /\ (fout # Nil /\ fout.step = "loaded") =>
          /\ (fout.err # Nil) = LoadMustFail(fin.file)
          /\ fout.err # Nil => filterRules = Nil
    /\ (fout # Nil /\ fout.step = "checked" /\ fout.err # Nil) =>
          /\ filterRules = Nil
          /\ fout.check = [rejected |-> FALSE, ruleName |-> ""]

C15_Witness ==
    /\ fout # Nil /\ fout.step = "loaded"
    /\ "previous" \in DOMAIN fout
    /\ fout.previous # Nil
    /\ Len(fout.previous.items) = 2
    /\ fin.file = [kind |-> "config", FilterRules |-> <<RuleSpam, RuleBadRegex>>]
    /\ fout.err = [kind |-> "invalid regex pattern", rule |-> "bad-regex"]
    /\ filterRules = Nil

-----------------------------------------------------------------------------
(* C16: when loading the filter configuration fails, SMTPStart returns the *)
(* load error, the daemon is not started and no envelope is ever handed to *)
(* the processor; the daemon runs only after a load that succeeded, and    *)
(* with no config file configured the load succeeds with a nil rule set.   *)

Started == daemon # "boot"

C16_NoStartAfterFailedLoad ==
    /\ (Started /\ LoadMustFail(fin.ConfigFile)) =>
          /\ daemon = "failed"
          /\ fout.err # Nil
          /\ fout.err.kind = "failed to load config"
          /\ filterRules = Nil
          /\ pc = "Idle" /\ envelope = Nil /\ message = Nil
          /\ requests = <<>> /\ result = Nil
    /\ daemon = "running" =>
          /\ fout.err = Nil
          /\ ~LoadMustFail(fin.ConfigFile)
          /\ filterRules = loadFilterRules(fin.ConfigFile).filterRules
          /\ fin.ConfigFile.kind = "none" => filterRules = Nil
    /\ pc # "Idle" => daemon = "running"

C16_Witness ==
    /\ daemon = "failed"
    /\ fin.ConfigFile = [kind |-> "config", FilterRules |-> <<RuleSpam, RuleBadMode>>]
    /\ fout.err = [kind |-> "failed to load config",
                   cause |-> [kind |-> "errInvalidMatchType", rule |-> "bad-mode"]]
    /\ filterRules = Nil
    /\ pc = "Idle"

-----------------------------------------------------------------------------
(* C17: with forwarded-attachment-max-size 0 and                           *)
(* forwarded-attachment-max-photo-size 0 no inline or attachment part is   *)
(* in the attachment list of the formatted email, every listed part has    *)
(* the action "discarded", and no sendDocument or sendPhoto request is     *)
(* made for a part.                                                        *)

ForwardingDisabled(config) ==
    /\ config.ForwardedAttachmentMaxSize = 0
    /\ config.ForwardedAttachmentMaxPhotoSize = 0

\* the attachments of m that come from parts of the email
PartAttachments(m) ==
    {j \in DOMAIN m.Attachments : m.Attachments[j].Filename # S_full_message_txt}

C17_ZeroSizesDisableForwarding ==
    (ForwardingDisabled(cfg) /\ message # Nil) =>
        /\ PartAttachments(message) = {}
        /\ \A k \in DOMAIN Catalogue(envelope, cfg).details :
              IsSuffix(S_discarded, Catalogue(envelope, cfg).details[k])
        /\ \A i \in Uploads : requests[i].att \notin PartAttachments(message)

-----------------------------------------------------------------------------
(* C18: every upload request goes to the destination of the latest text    *)
(* send made for the message and carries as reply_to_message_id the        *)
(* message id which that text send returned.                               *)

\* index of the latest text send made before request i
LatestTextSend(i) ==
    CHOOSE j \in TextSends : j < i /\ \A k \in TextSends : k < i => k <= j

C18_ReplyToJustSentText ==
    \A i \in Uploads :
       /\ \E j \in TextSends : j < i
       /\ requests[LatestTextSend(i)].chat = requests[i].chat
       /\ ~requests[LatestTextSend(i)].failed
       /\ requests[LatestTextSend(i)].returned # Nil
       /\ requests[i].reply = requests[LatestTextSend(i)].returned.MessageID

C18_Witness ==
    /\ pc = "Accepted"
    /\ Len(requests) = 6
    /\ requests[1].method = "sendMessage" /\ requests[1].returned = [MessageID |-> 2]
    /\ requests[3].method = "sendDocument" /\ requests[3].reply = 2
    /\ requests[4].method = "sendMessage" /\ requests[4].returned = [MessageID |-> 1]
    /\ requests[4].chat # requests[1].chat
    /\ requests[5].method = "sendPhoto" /\ requests[5].reply = 1
    /\ requests[6].reply = 1

-----------------------------------------------------------------------------
(* Delivery errors as text: what a failed text send or upload returns, and *)
(* what SendEmailToTelegram makes of it.                                   *)

\* the sentinel errors, lines 41-50
S_errReadingJSON ==
    <<"e", "r", "r", "o", "r", " ", "r", "e", "a", "d", "i", "n", "g", " ",
      "j", "s", "o", "n", " ", "b", "o", "d", "y", " ", "o", "f", " ", "s",
      "e", "n", "d", "M", "e", "s", "s", "a", "g", "e">>

S_errParsingJSON ==
    <<"e", "r", "r", "o", "r", " ", "p", "a", "r", "s", "i", "n", "g", " ",
      "j", "s", "o", "n", " ", "b", "o", "d", "y", " ", "o", "f", " ", "s",
      "e", "n", "d", "M", "e", "s", "s", "a", "g", "e">>

S_errResponseNotOK ==
    <<"t", "e", "l", "e", "g", "r", "a", "m", " ", "A", "P", "I", " ", "r",
      "e", "s", "p", "o", "n", "s", "e", " ", "n", "o", "t", " ", "o", "k">>

S_errTelegramNon200 ==
    <<"n", "o", "n", "-", "2", "0", "0", " ", "r", "e", "s", "p", "o", "n",
      "s", "e", " ", "f", "r", "o", "m", " ", "T", "e", "l", "e", "g", "r",
      "a", "m">>

S_errSanitizedTelegramFail ==
    <<"t", "e", "l", "e", "g", "r", "a", "m", " ", "o", "p", "e", "r", "a",
      "t", "i", "o", "n", " ", "f", "a", "i", "l", "e", "d">>

S_sendMessagePath ==
    <<"/", "s", "e", "n", "d", "M", "e", "s", "s", "a", "g", "e", "?", "d",
      "i", "s", "a", "b", "l", "e", "_", "w", "e", "b", "_", "p", "a", "g",
      "e", "_", "p", "r", "e", "v", "i", "e", "w", "=", "t", "r", "u", "e">>

S_sendDocumentPath ==
    <<"/", "s", "e", "n", "d", "D", "o", "c", "u", "m", "e", "n", "t", "?",
      "d", "i", "s", "a", "b", "l", "e", "_", "n", "o", "t", "i", "f", "i",
      "c", "a", "t", "i", "o", "n", "=", "t", "r", "u", "e">>

S_sendPhotoPath ==
    <<"/", "s", "e", "n", "d", "P", "h", "o", "t", "o", "?", "d", "i", "s",
      "a", "b", "l", "e", "_", "n", "o", "t", "i", "f", "i", "c", "a", "t",
      "i", "o", "n", "=", "t", "r", "u", "e">>

S_Ignoring ==
    <<"I", "g", "n", "o", "r", "i", "n", "g", " ", "a", "t", "t", "a", "c",
      "h", "m", "e", "n", "t", " ", "s", "e", "n", "d", "i", "n", "g", " ",
      "e", "r", "r", "o", "r", ":", " ">>

S_EOF ==
    <<"E", "O", "F">>

S_invalid_character ==
    <<"i", "n", "v", "a", "l", "i", "d", " ", "c", "h", "a", "r", "a", "c",
      "t", "e", "r">>

\* strings.ReplaceAll(s, old, new) for a non-empty old: the leftmost
\* non-overlapping occurrences are replaced, the replacements not rescanned
RECURSIVE ReplaceAll(_, _, _)
ReplaceAll(s, old, new) ==
    IF Len(s) < Len(old) THEN s
    ELSE IF HasPrefix(s, old)
      THEN new \o ReplaceAll(SubSeq(s, Len(old) + 1, Len(s)), old, new)
    ELSE <<Head(s)>> \o ReplaceAll(Tail(s), old, new)

\* EscapeMultiLine, lines 895-903
EscapeMultiLine(b) ==
    ReplaceAll(ReplaceAll(b, <<"\r">>, <<"\\", "r">>), <<"\n">>, <<"\\", "n">>)

\* SanitizeBotToken, lines 905-907
SanitizeBotToken(s, botToken) == ReplaceAll(s, botToken, <<"*", "*", "*">>)

\* apiURL of SendMessageToChat, lines 536-540
MessageURL(config) ==
    config.APIPrefix \o <<"b", "o", "t">> \o config.BotToken \o S_sendMessagePath

\* apiURL of SendAttachmentToChat, lines 647-652
AttachmentURL(config, attachment) ==
    config.APIPrefix \o <<"b", "o", "t">> \o config.BotToken
    \o (IF AttachmentMethod(attachment) = "sendPhoto" THEN S_sendPhotoPath
        ELSE S_sendDocumentPath)

\* the *url.Error which client.Do returns, lines 547-550 and 658-661:
\* the method, the quoted URL and the cause
UrlError(url, cause) ==
    <<"P", "o", "s", "t", " ", "\"">> \o url \o <<"\"", ":", " ">> \o cause

\* fmt.Errorf("%w: (%d) %s", errTelegramNon200, status, EscapeMultiLine(body)),
\* lines 561-566 and 672-677
Non200Error(status, body) ==
    S_errTelegramNon200 \o <<":", " ", "(">> \o Decimal(status) \o <<")", " ">>
    \o EscapeMultiLine(body)

\* the text of the error SendMessageToChat returns, lines 547-580
SendMessageToChatError(config, resp) ==
    IF resp.kind = "connErr" THEN UrlError(MessageURL(config), resp.cause)
    ELSE IF resp.status # 200 THEN Non200Error(resp.status, resp.body)
    ELSE IF ~resp.readable THEN S_errReadingJSON \o <<":", " ">> \o resp.cause
    ELSE IF ~resp.json THEN S_errParsingJSON \o <<":", " ">> \o S_invalid_character
    ELSE S_errResponseNotOK \o <<":", " ">> \o resp.body

\* the text of the error SendAttachmentToChat returns, lines 658-678
SendAttachmentToChatError(config, attachment, resp) ==
    IF resp.kind = "connErr"
      THEN UrlError(AttachmentURL(config, attachment), resp.cause)
    ELSE Non200Error(resp.status, resp.body)

\* fmt.Errorf("%w: %s", errSanitizedTelegramFail, SanitizeBotToken(...)),
\* lines 507 and 513
SanitizedErrorText(errText, config) ==
    S_errSanitizedTelegramFail \o <<":", " ">>
    \o SanitizeBotToken(errText, config.BotToken)

S_prefix ==
    <<"h", "t", "t", "p", ":", "/", "/", "t", "/">>

\* a token of the form the bot API issues, and one holding an asterisk
BotTokens == {<<"1", "2", ":", "A", "b">>, <<"t", "*">>}

ErrorConfigs ==
    {[APIPrefix |-> S_prefix, BotToken |-> token,
      ForwardedAttachmentRespectErrors |-> respect] :
        token \in BotTokens, respect \in BOOLEAN}

\* response bodies: empty, multi-line, and echoing the token
ErrorBodies(token) ==
    {<<>>, <<"a", "\n", "b">>, <<"a", "\r", "\n", "b", "\n">>, <<"x">> \o token,
     token \o <<"\n">> \o token}

\* response bodies that are JSON objects without "ok": true
NotOkBodies(token) ==
    {<<"{", "}">>, <<"{", "\n", "}">>,
     <<"{", "\"", "d", "\"", ":", "\"">> \o token \o <<"\"", "}">>}

TextFailures(token) ==
    {[kind |-> "connErr", cause |-> S_EOF]}
    \cup {[kind |-> "http", status |-> status, body |-> body] :
             status \in {400, 502}, body \in ErrorBodies(token)}
    \cup {[kind |-> "http", status |-> 200, readable |-> FALSE, cause |-> S_EOF]}
    \cup {[kind |-> "http", status |-> 200, readable |-> TRUE, json |-> FALSE,
           body |-> body] : body \in ErrorBodies(token) \ {<<>>}}
    \cup {[kind |-> "http", status |-> 200, readable |-> TRUE, json |-> TRUE,
           body |-> body] : body \in NotOkBodies(token)}

UploadFailures(token) ==
    {[kind |-> "connErr", cause |-> S_EOF]}
    \cup {[kind |-> "http", status |-> status, body |-> body] :
             status \in {400, 502}, body \in ErrorBodies(token)}

DeliveryErrorInputs ==
    {[fn |-> "SendMessageToChat", config |-> config, resp |-> resp] :
        config \in ErrorConfigs, resp \in UNION {TextFailures(t) : t \in BotTokens}}
    \cup {[fn |-> "SendAttachmentToChat", config |-> config, resp |-> resp,
           attachment |-> attachment] :
             config \in ErrorConfigs,
             resp \in UNION {UploadFailures(t) : t \in BotTokens},
             attachment \in {FormattedAttachment(PartPng.FileName, PartPng.FileName,
                                                 PartPng.Content, AttachmentTypePhoto),
                             FullMessageAttachment(S_hi)}}

InitDeliveryError ==
    /\ daemon = "running"
    /\ filterRules = Nil
    /\ cfg = Nil
    /\ pc = "Delivering"
    /\ envelope = Nil
    /\ message = Nil
    /\ chatIdx = 1
    /\ attIdx = 0
    /\ sentMessage = Nil
    /\ requests = <<>>
    /\ result = Nil
    /\ logs = <<>>
    /\ fin \in DeliveryErrorInputs
    /\ fout = Nil

\* SendEmailToTelegram, lines 504-508, when the text send fails: err is the
\* error of SendMessageToChat, returned what SendEmailToTelegram returns
ApplyTextSendFailure ==
    /\ fin # Nil /\ fin.fn = "SendMessageToChat"
    /\ fout = Nil
    /\ LET err == SendMessageToChatError(fin.config, fin.resp)
       IN  fout' = [err |-> err,
                    returned |-> <<SanitizedErrorText(err, fin.config)>>]
    /\ pc' = "Rejected"
    /\ UNCHANGED <<daemon, filterRules, cfg, envelope, message, chatIdx, attIdx,
                   sentMessage, requests, result, logs, fin>>

\* SendEmailToTelegram, lines 511-518, when an upload fails: the error is
\* returned under the strict policy and logged under the lenient one
ApplyUploadFailure ==
    /\ fin # Nil /\ fin.fn = "SendAttachmentToChat"
    /\ fout = Nil
    /\ LET err == SendAttachmentToChatError(fin.config, fin.attachment, fin.resp)
           sanitizedErr == SanitizedErrorText(err, fin.config)
       IN  IF fin.config.ForwardedAttachmentRespectErrors
             THEN /\ fout' = [err |-> err, returned |-> <<sanitizedErr>>]
                  /\ pc' = "Rejected"
                  /\ UNCHANGED logs
             ELSE /\ fout' = [err |-> err, returned |-> <<>>]
                  /\ pc' = "Delivering"
                  /\ logs' = Append(logs, S_Ignoring \o sanitizedErr)
    /\ UNCHANGED <<daemon, filterRules, cfg, envelope, message, chatIdx, attIdx,
                   sentMessage, requests, result, fin>>

NextDeliveryError ==
    \/ ApplyTextSendFailure
    \/ ApplyUploadFailure

SpecDeliveryError == InitDeliveryError /\ [][NextDeliveryError]_vars

-----------------------------------------------------------------------------
(* C19: whatever the bot token and the failure, neither the error          *)
(* SendEmailToTelegram returns nor the line it logs for an ignored upload  *)
(* failure contains the bot token.                                         *)

C19_TokenNeverInErrors ==
    fout # Nil =>
        /\ \A k \in DOMAIN fout.returned :
              ~Contains(fout.returned[k], fin.config.BotToken)
        /\ \A k \in DOMAIN logs : ~Contains(logs[k], fin.config.BotToken)

-----------------------------------------------------------------------------
(* C20: the error a failed text send or upload produces from a bot API     *)
(* response holds no raw carriage return and no raw newline.               *)

C20_NoRawLineBreaks ==
    (fout # Nil /\ fin.resp.kind = "http") =>
        \A k \in DOMAIN fout.err : fout.err[k] \notin {"\r", "\n"}

-----------------------------------------------------------------------------
(* A reload beside a save worker: one goroutine runs loadFilterRules while *)
(* a save worker runs checkFilterRules.  Neither takes a lock, so a read   *)
(* of the package variable made while a store to it is under way is a data *)
(* race: it may yield the value before the store, the value being stored,  *)
(* or a slice header mixing words of the two.                              *)
(* fin holds the loader's frame (at: its position, previous: the variable  *)
(* when it was called, pending: the value being stored) and the fields of  *)
(* the worker's message; fout holds what the worker read; pc is the        *)
(* worker's position in checkFilterRules.                                  *)

\* the configuration files SMTPStart loaded before the daemon started
StartupFiles ==
    {[kind |-> "none"],
     [kind |-> "config", FilterRules |-> <<RuleSpam, RuleHam>>],
     [kind |-> "config", FilterRules |-> <<RuleEitherHi>>]}

ReloadInputs ==
    [fn : {"reload"}, file : ReloadFiles, at : {"303"}, pending : {Nil},
     from : {S_from}, to : {S_rcpt}, subject : {S_SPAM, S_hi}, body : {S_hi},
     html : {<<>>, S_html}]

InitReload ==
    /\ daemon = "running"
    /\ \E file \in StartupFiles : filterRules = loadFilterRules(file).filterRules
    /\ cfg = Nil
    /\ pc = "Idle"
    /\ envelope = Nil
    /\ message = Nil
    /\ chatIdx = 0
    /\ attIdx = 0
    /\ sentMessage = Nil
    /\ requests = <<>>
    /\ result = Nil
    /\ logs = <<>>
    /\ \E in \in ReloadInputs :
          fin = [fn |-> in.fn, file |-> in.file, at |-> in.at, pending |-> in.pending,
                 from |-> in.from, to |-> in.to, subject |-> in.subject,
                 body |-> in.body, html |-> in.html, previous |-> filterRules]
    /\ fout = Nil

\* a slice header read while old is being overwritten by new, taking the data
\* pointer of ptr and the length of len: nil when the pointer is nil and the
\* length zero, a shorter view of ptr's array, or a header reaching outside it
Torn(ptr, len) ==
    LET n == IF len = Nil THEN 0 ELSE Len(len.items)
    IN  IF ptr = Nil THEN (IF n = 0 THEN Nil ELSE [corrupt |-> TRUE])
        ELSE IF n <= Len(ptr.items) THEN [items |-> SubSeq(ptr.items, 1, n)]
        ELSE [corrupt |-> TRUE]

\* what a read of the package variable filterRules may yield
ReadFilterRules ==
    IF fin.at \in {"303w", "347w"}
      THEN {filterRules, fin.pending, Torn(filterRules, fin.pending),
            Torn(fin.pending, filterRules)}
      ELSE {filterRules}

\* loadFilterRules, line 303: the store filterRules = nil begins
LoadClearStart ==
    /\ fin.at = "303"
    /\ fin' = [fin EXCEPT !.at = "303w", !.pending = Nil]
    /\ UNCHANGED <<daemon, filterRules, cfg, pc, envelope, message, chatIdx, attIdx,
                   sentMessage, requests, result, logs, fout>>

\* loadFilterRules, line 303: the store is complete
LoadClearEnd ==
    /\ fin.at = "303w"
    /\ filterRules' = Nil
    /\ fin' = [fin EXCEPT !.at = "305"]
    /\ UNCHANGED <<daemon, cfg, pc, envelope, message, chatIdx, attIdx, sentMessage,
                   requests, result, logs, fout>>

\* loadFilterRules, lines 305-347: the file is read and parsed and the patterns
\* are compiled into the local config; an empty filename or an error returns,
\* otherwise the store filterRules = config.FilterRules begins
LoadCompile ==
    /\ fin.at = "305"
    /\ LET load == loadFilterRules(fin.file)
       IN  IF load.err # Nil \/ fin.file.kind = "none"
             THEN fin' = [fin EXCEPT !.at = "returned"]
             ELSE fin' = [fin EXCEPT !.at = "347w", !.pending = load.filterRules]
    /\ UNCHANGED <<daemon, filterRules, cfg, pc, envelope, message, chatIdx, attIdx,
                   sentMessage, requests, result, logs, fout>>

\* loadFilterRules, line 347: the store is complete, lines 349-352 return
LoadAssignEnd ==
    /\ fin.at = "347w"
    /\ filterRules' = fin.pending
    /\ fin' = [fin EXCEPT !.at = "returned"]
    /\ UNCHANGED <<daemon, cfg, pc, envelope, message, chatIdx, attIdx, sentMessage,
                   requests, result, logs, fout>>

\* checkFilterRules, lines 365-367: the nil test reads the variable
CheckNil ==
    /\ pc = "Idle"
    /\ \E r \in ReadFilterRules :
          IF r = Nil
            THEN /\ pc' = "Checked"
                 /\ fout' = [reads |-> <<r>>,
                             check |-> [rejected |-> FALSE, ruleName |-> ""]]
            ELSE /\ pc' = "Ranging"
                 /\ fout' = [reads |-> <<r>>]
    /\ UNCHANGED <<daemon, filterRules, cfg, envelope, message, chatIdx, attIdx,
                   sentMessage, requests, result, logs, fin>>

\* checkFilterRules, lines 369-375: the range statement reads the variable
\* again and the loop runs over the slice it read
CheckRange ==
    /\ pc = "Ranging"
    /\ \E r \in ReadFilterRules :
          IF r # Nil /\ "corrupt" \in DOMAIN r
            THEN /\ pc' = "Panicked"
                 /\ fout' = [reads |-> Append(fout.reads, r)]
            ELSE /\ pc' = "Checked"
                 /\ fout' = [reads |-> Append(fout.reads, r),
                             check |-> checkFilterRules(r, fin.from, fin.to,
                                                        fin.subject, fin.body,
                                                        fin.html)]
    /\ UNCHANGED <<daemon, filterRules, cfg, envelope, message, chatIdx, attIdx,
                   sentMessage, requests, result, logs, fin>>

\* the worker takes the next message
CheckAgain ==
    /\ pc \in {"Checked", "Panicked"}
    /\ fin.at # "returned"
    /\ pc' = "Idle"
    /\ fout' = Nil
    /\ UNCHANGED <<daemon, filterRules, cfg, envelope, message, chatIdx, attIdx,
                   sentMessage, requests, result, logs, fin>>

NextReload ==
    \/ LoadClearStart
    \/ LoadClearEnd
    \/ LoadCompile
    \/ LoadAssignEnd
    \/ CheckNil
    \/ CheckRange
    \/ CheckAgain

SpecReload == InitReload /\ [][NextReload]_vars

-----------------------------------------------------------------------------
(* C21: while a successful loadFilterRules runs beside checkFilterRules,   *)
(* every rule set the evaluation reads is the whole set that was active    *)
(* when the load was called or the whole newly loaded set.                 *)

LoadSucceeds(file) == file.kind = "config" /\ loadFilterRules(file).err = Nil

-----------------------------------------------------------------------------
(* Terms of the truncation claims, computed from the input of FormatMessage *)

\* the template rendered with body as the text
RenderedWith(body) ==
    FullMessageText(fin.config.MessageTemplate, fin.from, fin.to, fin.subject, body,
                    fin.details)

Threshold == fin.config.MessageLengthToSendAsFile

\* the overhead FormatMessage measures: the body is "." and the marker
Overhead == RuneLen(RenderedWith(<<".">> \o BodyTruncated))

\* the overhead with the marker alone as the body: trimmed like every body
\* ("[truncated]"), or with its two newlines kept
MarkerAloneOverheads == {RuneLen(RenderedWith(BodyTruncated)), Overhead - 1}

TrimmedBody == TrimSpace(fin.text)

\* the template rendered with the first k code points of the trimmed body
\* followed by the marker
TruncatedWith(k) == RenderedWith(SliceUpTo(TrimmedBody, k) \o BodyTruncated)

BodyCount(tpl) == Cardinality({i \in DOMAIN tpl : tpl[i] = "{body}"})

\* the full rendering exceeds the threshold and the overhead is below it
ProperTruncation ==
    /\ FormatMessageDone
    /\ RuneLen(RenderedWith(fin.text)) > Threshold
    /\ Overhead < Threshold

-----------------------------------------------------------------------------
(* C22 as stated: in proper truncation the truncated rendering keeps the   *)
(* first threshold - overhead code points of the trimmed body, the         *)
(* overhead being the length of the template rendered with the marker      *)
(* alone as the body.                                                      *)

C22_KeepsThresholdMinusMarkerOverhead ==
    (ProperTruncation /\ fout.panic = "none") =>
        \E o \in MarkerAloneOverheads : fout.truncated = TruncatedWith(Threshold - o)

(* C22 as amended: the overhead is the length of the template rendered     *)
(* with "." followed by the marker as the body; FormatMessage keeps the    *)
(* first threshold - overhead code points of the trimmed body, which the   *)
(* body has, follows them with the marker, substitutes into the template   *)
(* and trims; it fails to return only for a template that repeats {body}.  *)

C22_KeepsThresholdMinusOverhead ==
    ProperTruncation =>
        /\ fout.panic = "none" =>
              /\ Threshold - Overhead <= Len(TrimmedBody)
              /\ fout.truncated = TruncatedWith(Threshold - Overhead)
              /\ fout.full = RenderedWith(fin.text)
        /\ fout.panic # "none" => BodyCount(fin.config.MessageTemplate) > 1

C22_Witness ==
    /\ ProperTruncation
    /\ fin.config.MessageTemplate = TplCustom
    /\ fin.subject = <<>>
    /\ Threshold = 30
    /\ Overhead = 25
    /\ fout.truncated =
          <<"S", "u", "b", "j", "e", "c", "t", ":", " ", "\n", "\n">>
          \o <<"x", "x", "x", "x", "U+00E9">> \o BodyTruncated

-----------------------------------------------------------------------------
(* C23: when the full rendering has more code points than the threshold    *)
(* and the overhead alone reaches the threshold, FormatMessage returns the *)
(* full rendering and its first threshold code points; FormatEmail (the    *)
(* rendering fitting forwarded-attachment-max-size) returns those code     *)
(* points as Text and full_message.txt holding the full rendering as the   *)
(* first attachment.                                                       *)

\* the overhead FormatMessage measures for an envelope
EmailOverhead(env, config) ==
    RuneLen(FullMessageText(config.MessageTemplate, env.MailFrom,
                            JoinEmailAddresses(env.RcptTo), env.Subject,
                            <<".">> \o BodyTruncated,
                            FormattedAttachmentsDetails(Catalogue(env, config).details)))

ImproperTruncation ==
    /\ FormatMessageDone
    /\ RuneLen(RenderedWith(fin.text)) > Threshold
    /\ Overhead >= Threshold

ImproperEmailTruncation ==
    /\ FormatEmailDone
    /\ fin.env.parseOk
    /\ RuneLen(FullRendering(fin.env, fin.config)) > Threshold
    /\ EmailOverhead(fin.env, fin.config) >= Threshold
    /\ ByteLen(FullRendering(fin.env, fin.config))
          <= fin.config.ForwardedAttachmentMaxSize

C23_ImproperCutStillAttached ==
    /\ ImproperTruncation =>
          /\ fout.panic = "none"
          /\ fout.full = RenderedWith(fin.text)
          /\ fout.truncated = SubSeq(fout.full, 1, Threshold)
    /\ ImproperEmailTruncation =>
          /\ fout.panic = "none"
          /\ fout.err = Nil
          /\ fout.msg.Text = SubSeq(FullRendering(fin.env, fin.config), 1, Threshold)
          /\ Len(fout.msg.Attachments) >= 1
          /\ fout.msg.Attachments[1] =
                FormattedAttachment(S_full_message_txt, S_Full_message,
                                    FullRendering(fin.env, fin.config),
                                    AttachmentTypeDocument)

-----------------------------------------------------------------------------
(* Terms of the part claims, computed from the input and output of doParts *)

DoPartsDone == fin # Nil /\ fin.fn = "doParts" /\ fout # Nil

Range(s) == {s[k] : k \in DOMAIN s}

\* the lines doParts can write for part i of the inline and attachment parts
PartLines(env, i) ==
    LET part == AllParts(env)[i]
    IN  {DetailsLine(PartEmoji(env, i), part.FileName,
                     GuessContentType(part.ContentType, part.FileName),
                     ByteLen(part.Content), action) : action \in {S_sending, S_discarded}}

\* part i has a line in the attachment details
PartListed(i) == PartLines(fin.env, i) \cap Range(fout.details) # {}

\* some entry of the attachment list carries the bytes of part i
PartAttached(i) ==
    \E k \in DOMAIN fout.attachments :
       /\ fout.attachments[k].Content = AllParts(fin.env)[i].Content
       /\ fout.attachments[k].Filename = AllParts(fin.env)[i].FileName

\* the plain text chosen as the body: the text doParts leaves, else the raw bytes
ChosenBody == IF fout.text = <<>> THEN fin.env.Data ELSE fout.text

-----------------------------------------------------------------------------
(* C24 as stated: every inline or attachment part whose bytes equal the    *)
(* plain text chosen as the body has no line in the attachment details and *)
(* no entry in the attachment list, whether the text came from the parser  *)
(* or from the fallback to a text/plain part.                              *)

C24_SkipsPartsEqualToChosenBody ==
    DoPartsDone =>
        \A i \in DOMAIN AllParts(fin.env) :
           AllParts(fin.env)[i].Content = ChosenBody =>
               ~PartListed(i) /\ ~PartAttached(i)

(* C24 as amended: every inline or attachment part whose bytes equal the   *)
(* parser-supplied plain text has no line and no entry.  When the body     *)
(* comes from the fallback, only the first unnamed text/plain part is      *)
(* consumed: a later part with the same bytes is listed.                   *)

C24_SkipsPartsEqualToParsedText ==
    DoPartsDone =>
        \A i \in DOMAIN AllParts(fin.env) :
           /\ AllParts(fin.env)[i].Content = fin.env.Text =>
                 ~PartListed(i) /\ ~PartAttached(i)
           /\ (/\ fin.env.Text = <<>>
               /\ AllParts(fin.env)[i].Content = fout.text
               /\ fout.text # <<>>
               /\ ~ConsumedAsBody(fin.env, i)) => PartListed(i)

C24_Witness ==
    /\ DoPartsDone
    /\ fin.env.Text = S_hi
    /\ fin.env.Inlines = <<PartSameAsText>>
    /\ fin.env.Attachments = <<PartGif>>
    /\ fin.config.ForwardedAttachmentMaxSize = 64
    /\ fout.text = S_hi
    /\ Len(fout.details) = 2
    /\ fout.details[1] = DetailsLine(EmojiAttachment, PartGif.FileName, S_image_gif,
                                     5, S_sending)
    /\ Len(fout.attachments) = 1
    /\ fout.attachments[1].Filename = PartGif.FileName

-----------------------------------------------------------------------------
(* C25 as stated: with no parser-supplied plain text the body is the bytes *)
(* of the first inline or attachment part of type text/plain without a     *)
(* filename; that part is not listed and every other part is; with no such *)
(* part doParts leaves the text empty and FormatEmail renders the raw      *)
(* message bytes.                                                          *)

FirstUnnamedPlain(env) ==
    Min({i \in DOMAIN AllParts(env) : UnnamedPlain(AllParts(env)[i])})

C25_FallbackToFirstUnnamedPlain ==
    (DoPartsDone /\ fin.env.Text = <<>>) =>
        IF \E i \in DOMAIN AllParts(fin.env) : UnnamedPlain(AllParts(fin.env)[i])
          THEN /\ fout.text = AllParts(fin.env)[FirstUnnamedPlain(fin.env)].Content
               /\ \A i \in DOMAIN AllParts(fin.env) \ {FirstUnnamedPlain(fin.env)} :
                     PartListed(i)
               /\ Len(fout.details)
                     = Len(AllParts(fin.env)) - 1 + Len(fin.env.OtherParts)
          ELSE /\ fout.text = <<>>
               /\ \A i \in DOMAIN AllParts(fin.env) : PartListed(i)

(* C25 as amended: with no parser-supplied plain text every zero-byte part *)
(* is skipped, and the body is the bytes of the first part with content,   *)
(* inlines before attachments, of type text/plain without a filename; that *)
(* part is not listed, every other part with content is; with no such part *)
(* the body FormatEmail renders is the raw message bytes.                  *)

\* the inline and attachment parts that carry at least one byte
WithContent(env) == {i \in DOMAIN AllParts(env) : AllParts(env)[i].Content # <<>>}

FallbackParts(env) == {i \in WithContent(env) : UnnamedPlain(AllParts(env)[i])}

\* the full rendering of an envelope whose body is text
RenderedEmail(env, config, text) ==
    FullMessageText(config.MessageTemplate, env.MailFrom,
                    JoinEmailAddresses(env.RcptTo), env.Subject, text,
                    FormattedAttachmentsDetails(Catalogue(env, config).details))

C25_FallbackToFirstPlainWithContent ==
    /\ (DoPartsDone /\ fin.env.Text = <<>>) =>
          /\ IF FallbackParts(fin.env) # {}
               THEN /\ fout.text = AllParts(fin.env)[Min(FallbackParts(fin.env))].Content
                    /\ \A i \in WithContent(fin.env) \ {Min(FallbackParts(fin.env))} :
                          PartListed(i)
                    /\ Len(fout.details) = Cardinality(WithContent(fin.env)) - 1
                                           + Len(fin.env.OtherParts)
               ELSE /\ fout.text = <<>>
                    /\ \A i \in WithContent(fin.env) : PartListed(i)
                    /\ Len(fout.details) = Cardinality(WithContent(fin.env))
                                           + Len(fin.env.OtherParts)
    /\ (/\ FormatEmailDone /\ fin.env.parseOk /\ fin.env.Text = <<>>
        /\ FallbackParts(fin.env) = {}
        /\ RuneLen(RenderedEmail(fin.env, fin.config, fin.env.Data))
              <= fin.config.MessageLengthToSendAsFile) =>
          /\ fout.msg # Nil
          /\ fout.msg.Text = RenderedEmail(fin.env, fin.config, fin.env.Data)

C25_Witness ==
    /\ DoPartsDone
    /\ fin.env.Text = <<>>
    /\ fin.env.Inlines = <<PartEmptyPlain, PartGif>>
    /\ fin.env.Attachments = <<PartTextPlain, PartEmpty, PartDoc>>
    /\ fin.config.ForwardedAttachmentMaxSize = 64
    /\ fout.text = PartTextPlain.Content
    /\ Len(fout.details) = 2
    /\ Len(fout.attachments) = 2
    /\ fout.attachments[2].Filename = PartDoc.FileName

-----------------------------------------------------------------------------
(* C26: the lines of the attachment details are those of the listed inline *)
(* parts in their order, then those of the listed attachment parts in      *)
(* their order, then one "discarded" line per other part in order; the     *)
(* attachment list holds the forwarded inline parts, then the forwarded    *)
(* attachment parts, in order, and nothing of the other parts; the details *)
(* string is "Attachments:\n" followed by the lines joined by newlines     *)
(* when there is a line, and empty otherwise.                              *)

\* the lines of the inline and attachment parts
PartDetails == SubSeq(fout.details, 1, Len(fout.details) - Len(fin.env.OtherParts))

\* the lines after them
OtherDetails ==
    SubSeq(fout.details, Len(fout.details) - Len(fin.env.OtherParts) + 1,
           Len(fout.details))

\* positions of the newlines after the header of the details string
Breaks ==
    {p \in (Len(S_Attachments) + 1)..Len(fout.formatted) : fout.formatted[p] = "\n"}

\* position of the k-th of them; the header's own newline for k = 0 and the
\* position after the last code point for k beyond them
Break(k) ==
    IF k = 0 THEN Len(S_Attachments)
    ELSE IF k > Cardinality(Breaks) THEN Len(fout.formatted) + 1
    ELSE CHOOSE p \in Breaks : Cardinality({q \in Breaks : q < p}) = k - 1

C26_FixedOrder ==
    DoPartsDone =>
        /\ Len(PartDetails) = Len(ListedParts(fin.env))
        /\ \A k \in DOMAIN PartDetails :
              PartDetails[k] \in PartLines(fin.env, ListedParts(fin.env)[k])
        /\ \A k \in 1..(Len(ListedParts(fin.env)) - 1) :
              ListedParts(fin.env)[k] < ListedParts(fin.env)[k + 1]
        /\ Len(OtherDetails) = Len(fin.env.OtherParts)
        /\ \A j \in DOMAIN OtherDetails :
              LET part == fin.env.OtherParts[j]
              IN  OtherDetails[j] =
                     DetailsLine(EmojiOther, part.FileName,
                                 GuessContentType(part.ContentType, part.FileName),
                                 ByteLen(part.Content), S_discarded)
        /\ Len(fout.attachments) = Len(ForwardedParts(fin.env, fin.config))
        /\ \A k \in DOMAIN fout.attachments :
              LET part == AllParts(fin.env)[ForwardedParts(fin.env, fin.config)[k]]
              IN  /\ fout.attachments[k].Filename = part.FileName
                  /\ fout.attachments[k].Content = part.Content
        /\ \A k \in 1..(Len(fout.attachments) - 1) :
              ForwardedParts(fin.env, fin.config)[k]
                 < ForwardedParts(fin.env, fin.config)[k + 1]
        /\ IF fout.details = <<>> THEN fout.formatted = <<>>
           ELSE /\ IsPrefix(S_Attachments, fout.formatted)
                /\ Cardinality(Breaks) + 1 = Len(fout.details)
                /\ \A k \in DOMAIN fout.details :
                      fout.details[k] = SubSeq(fout.formatted, Break(k - 1) + 1,
                                               Break(k) - 1)

C26_Witness ==
    /\ DoPartsDone
    /\ fin.env.Inlines = <<PartPng>>
    /\ fin.env.Attachments = <<PartJpg, PartDoc>>
    /\ fin.env.OtherParts = <<PartOther>>
    /\ fin.config.ForwardedAttachmentMaxSize = 64
    /\ fin.config.ForwardedAttachmentMaxPhotoSize = 64
    /\ fout.details =
          <<DetailsLine(EmojiInline, PartPng.FileName, S_image_png, 3, S_sending),
            DetailsLine(EmojiAttachment, PartJpg.FileName, S_image_jpeg, 4, S_sending),
            DetailsLine(EmojiAttachment, PartDoc.FileName, S_text_plain, 5, S_sending),
            DetailsLine(EmojiOther, PartOther.FileName, S_octet_stream, 1,
                        S_discarded)>>
    /\ [k \in DOMAIN fout.attachments |-> fout.attachments[k].Filename]
          = <<PartPng.FileName, PartJpg.FileName, PartDoc.FileName>>
    /\ fout.formatted = S_Attachments \o fout.details[1] \o <<"\n">> \o fout.details[2]
                        \o <<"\n">> \o fout.details[3] \o <<"\n">> \o fout.details[4]

-----------------------------------------------------------------------------
(* C28: the step that rejects a message for a failed send adds the failed  *)
(* request to the requests already made and takes none of them back, and   *)
(* answers 554; a message rejected for a failed send has every earlier     *)
(* request of the complete delivery made, the text sends among them all    *)
(* delivered.                                                              *)

\* the requests made so far that the bot API accepted
Delivered == {i \in DOMAIN requests : ~requests[i].failed}

RejectedBySend ==
    pc = "Rejected" /\ result.err.kind = "errSanitizedTelegramFail"

C28_NoRollback ==
    /\ [][(pc = "Delivering" /\ pc' = "Rejected") =>
            /\ Len(requests') = Len(requests) + 1
            /\ SubSeq(requests', 1, Len(requests)) = requests
            /\ requests'[Len(requests')].failed
            /\ result'.smtp = "554 Error"
            /\ result'.err.kind = "errSanitizedTelegramFail"]_vars
    /\ [](RejectedBySend =>
            /\ result.smtp = "554 Error"
            /\ IsPrefix(Made, CompleteDelivery(message, cfg))
            /\ Delivered \cap TextSends = TextSends \ {Len(requests)}
            /\ \A i \in DOMAIN requests :
                  requests[i].method \in {"sendMessage", "sendDocument", "sendPhoto"})

C28_Witness ==
    /\ RejectedBySend
    /\ result.smtp = "554 Error"
    /\ cfg.ForwardedAttachmentRespectErrors
    /\ Len(Chats(cfg)) = 2
    /\ Len(requests) = 5
    /\ Delivered = {1, 2, 3, 4}
    /\ requests[1].chat = Chats(cfg)[1]
    /\ requests[4].method = "sendMessage"
    /\ requests[4].chat = Chats(cfg)[2]
    /\ requests[5].method = "sendPhoto"

-----------------------------------------------------------------------------
(* C29: every text send that SendMessageToChat reports as successful       *)
(* returned a message object, every other text send is a delivery error    *)
(* that rejects the message, and building an attachment upload never       *)
(* faults on a missing sent message.                                       *)
C29_SuccessCarriesMessage ==
    /\ \A i \in TextSends :
          /\ ~requests[i].failed => requests[i].returned # Nil
          /\ requests[i].failed => (i = Len(requests) /\ RejectedBySend)
    /\ pc # "Panicked"

-----------------------------------------------------------------------------
(* C30: for a template with at most one {body}, FormatMessage never        *)
(* panics; in proper truncation the number of body code points it keeps    *)
(* is below the trimmed body's length and the truncated rendering has at   *)
(* most threshold - 1 code points.                                         *)
C30_SingleBodyNeverPanics ==
    (FormatMessageDone /\ BodyCount(fin.config.MessageTemplate) <= 1) =>
        /\ fout.panic = "none"
        /\ ProperTruncation =>
              /\ MaxBodyLength(Threshold, Overhead) < Len(TrimmedBody)
              /\ fout.truncated # <<>>
              /\ RuneLen(fout.truncated) <= Threshold - 1

C30_Witness ==
    /\ ProperTruncation
    /\ BodyCount(fin.config.MessageTemplate) = 1
    /\ fout.panic = "none"
    /\ MaxBodyLength(Threshold, Overhead) = Len(TrimmedBody) - 15
    /\ RuneLen(fout.truncated) = Threshold - 1
    /\ ByteLen(fout.truncated) > RuneLen(fout.truncated)

-----------------------------------------------------------------------------
(* Shutdown: main has started the daemon and runs awaitShutdown (line 184). *)
(* pc is the main goroutine's position, daemon the daemon's state, fin the *)
(* context, timer and channel awaitShutdown works with, fout the value it  *)
(* returns, result the exit status of the process, logs the log lines.     *)

MaxSignals == 2         \* termination signals delivered to the process: 0..MaxSignals

\* the signals signal.NotifyContext is asked to catch, line 911
TermSignals == {"SIGTERM", "SIGQUIT", "SIGINT"}

InitShutdown ==
    /\ daemon = "running"
    /\ filterRules = Nil
    /\ cfg = Nil
    /\ pc = "AwaitSignal"
    /\ envelope = Nil
    /\ message = Nil
    /\ chatIdx = 0
    /\ attIdx = 0
    /\ sentMessage = Nil
    /\ requests = <<>>
    /\ result = Nil
    /\ logs = <<>>
    /\ fin = [fn |-> "awaitShutdown", ctxDone |-> FALSE, caught |-> <<>>,
              timer |-> "unset", done |-> FALSE, goroutine |-> "none"]
    /\ fout = Nil

SelectReadyDoneOnly(done, expired) ==
    IF done THEN {"CaseDone"} ELSE {}

\* the cases of the select at lines 926-933 that can proceed
SelectReady(done, expired) ==
    (IF done THEN {"CaseDone"} ELSE {}) \cup (IF expired THEN {"CaseTimeout"} ELSE {})

\* main, lines 285-289: the exit status for the error cmd.Run returns
ExitStatus(err) == IF err # Nil THEN 1 ELSE 0

\* a termination signal is delivered while signal.NotifyContext is registered
\* (lines 911-912): the first one cancels ctx, a later one changes nothing more
SignalArrives ==
    /\ fin.fn = "awaitShutdown"
    /\ fout = Nil
    /\ Len(fin.caught) < MaxSignals
    /\ \E sig \in TermSignals :
          fin' = [fin EXCEPT !.ctxDone = TRUE, !.caught = Append(@, sig)]
    /\ UNCHANGED <<daemon, filterRules, cfg, pc, envelope, message, chatIdx, attIdx,
                   sentMessage, requests, result, logs, fout>>

\* awaitShutdown, lines 914-924: <-ctx.Done() returns, the signal is logged, the
\* 60 s timeout context is created and the shutdown goroutine is started
AwaitWake ==
    /\ pc = "AwaitSignal"
    /\ fin.ctxDone
    /\ logs' = Append(logs, [level |-> "info", msg |-> "Shutdown signal caught"])
    /\ fin' = [fin EXCEPT !.timer = "running", !.goroutine = "started"]
    /\ pc' = "Select"
    /\ UNCHANGED <<daemon, filterRules, cfg, envelope, message, chatIdx, attIdx,
                   sentMessage, requests, result, fout>>

\* line 922: the goroutine calls d.Shutdown()
ShutdownCall ==
    /\ result = Nil
    /\ fin.goroutine = "started"
    /\ daemon' = "stopping"
    /\ fin' = [fin EXCEPT !.goroutine = "in Shutdown"]
    /\ UNCHANGED <<filterRules, cfg, pc, envelope, message, chatIdx, attIdx,
                   sentMessage, requests, result, logs, fout>>

\* line 922: d.Shutdown() returns; nothing in awaitShutdown bounds the time it takes
ShutdownReturn ==
    /\ result = Nil
    /\ fin.goroutine = "in Shutdown"
    /\ daemon' = "stopped"
    /\ fin' = [fin EXCEPT !.goroutine = "returned"]
    /\ UNCHANGED <<filterRules, cfg, pc, envelope, message, chatIdx, attIdx,
                   sentMessage, requests, result, logs, fout>>

\* line 923: close(done)
CloseDone ==
    /\ result = Nil
    /\ fin.goroutine = "returned"
    /\ fin' = [fin EXCEPT !.goroutine = "exited", !.done = TRUE]
    /\ UNCHANGED <<daemon, filterRules, cfg, pc, envelope, message, chatIdx, attIdx,
                   sentMessage, requests, result, logs, fout>>

\* line 918: the timeout of shutdownCtx passes before cancel() is called
TimerExpire ==
    /\ result = Nil
    /\ fin.timer = "running"
    /\ fin' = [fin EXCEPT !.timer = "expired"]
    /\ UNCHANGED <<daemon, filterRules, cfg, pc, envelope, message, chatIdx, attIdx,
                   sentMessage, requests, result, logs, fout>>

\* line 926: the select blocks until a case can proceed and takes one of those
\* that can
Select ==
    /\ pc = "Select"
    /\ \E case \in SelectReady(fin.done, fin.timer = "expired") : pc' = case
    /\ UNCHANGED <<daemon, filterRules, cfg, envelope, message, chatIdx, attIdx,
                   sentMessage, requests, result, logs, fin, fout>>

\* lines 927-929, with the deferred cancel() and stop()
ReturnNil ==
    /\ pc = "CaseDone"
    /\ logs' = Append(logs, [level |-> "info", msg |-> "Shutdown completed, exiting."])
    /\ fout' = [err |-> Nil]
    /\ fin' = [fin EXCEPT !.timer = IF @ = "running" THEN "cancelled" ELSE @]
    /\ pc' = "Returned"
    /\ UNCHANGED <<daemon, filterRules, cfg, envelope, message, chatIdx, attIdx,
                   sentMessage, requests, result>>

\* lines 930-932, with the deferred cancel() and stop()
ReturnTimeout ==
    /\ pc = "CaseTimeout"
    /\ logs' = Append(logs, [level |-> "error", msg |-> "graceful shutdown timed out"])
    /\ fout' = [err |-> [kind |-> "context.DeadlineExceeded"]]
    /\ pc' = "Returned"
    /\ UNCHANGED <<daemon, filterRules, cfg, envelope, message, chatIdx, attIdx,
                   sentMessage, requests, result, fin>>

\* main, lines 184 and 285-289: the action returns awaitShutdown's value and the
\* process exits, with status 1 after printing the error if there is one
MainExit ==
    /\ pc = "Returned"
    /\ result' = [exit |-> ExitStatus(fout.err)]
    /\ pc' = "Exited"
    /\ UNCHANGED <<daemon, filterRules, cfg, envelope, message, chatIdx, attIdx,
                   sentMessage, requests, logs, fin, fout>>

NextShutdown ==
    \/ SignalArrives
    \/ AwaitWake
    \/ ShutdownCall
    \/ ShutdownReturn
    \/ CloseDone
    \/ TimerExpire
    \/ Select
    \/ ReturnNil
    \/ ReturnTimeout
    \/ MainExit

\* the goroutines are scheduled and time passes; no signal need arrive and
\* d.Shutdown() need not return
SpecShutdown ==
    /\ InitShutdown
    /\ [][NextShutdown]_vars
    /\ WF_vars(AwaitWake)
    /\ WF_vars(ShutdownCall)
    /\ WF_vars(CloseDone)
    /\ WF_vars(TimerExpire)
    /\ WF_vars(Select)
    /\ WF_vars(ReturnNil)
    /\ WF_vars(ReturnTimeout)
    /\ WF_vars(MainExit)

-----------------------------------------------------------------------------
(* C27: before a signal arrives awaitShutdown does nothing; once one has   *)
(* arrived it returns, and the process exits: either with nil and status 0 *)
(* after the daemon's shutdown finished, or with an error and status 1     *)
(* after the grace period expired, never both and never neither.           *)

ShutdownLogs == {logs[i].msg : i \in DOMAIN logs}

=============================================================================
